---------------------------- MODULE Spec2Model ----------------------------
(***************************************************************************)
(* A model of the but-next repository subsystem: the content-addressable   *)
(* blob store, the snapshot manifests, backup_target, prune_snapshots /    *)
(* delete_snapshot and restore_snapshot.                                   *)
(*                                                                         *)
(* Byte strings and text strings are sequences of small naturals (bytes,   *)
(* ASCII codes), so that prefixes, suffixes, splits and the lexicographic  *)
(* order of a BTreeMap are computed as the code computes them.             *)
(***************************************************************************)
EXTENDS Integers, Sequences, FiniteSets, TLC

VARIABLES
    now,        \* the wall clock, in whole seconds (chrono::Local::now)
    nb,         \* number of backup_target calls started so far
    snapshots,  \* <repo>/snapshots: snapshot id -> manifest (a Snapshot)
    blobs,      \* <repo>/blobs: hash -> the bytes on disk
    pc,         \* position of the single running command
    bk,         \* locals of backup_target
    pr,         \* locals of prune_snapshots and delete_snapshot, or of the command
                \* a second process runs
    ret,        \* what the command that just finished returned
    tampered    \* hashes whose blob was altered from outside (SpecTamper only)

vars == <<now, nb, snapshots, blobs, pc, bk, pr, ret, tampered>>

-----------------------------------------------------------------------------
(* Bounds of the model.                                                    *)

\* backup_target calls per behaviour
MaxBackups == 2
\* largest `keep` handed to prune_snapshots
MaxKeep == 1

\* the bytes an interrupted write leaves at most
MaxTorn == 1

\* the blobs that are altered at most
MaxTampers == 1

\* the number of patterns of an exclude list
MaxPatterns == 2

\* the length of the byte sequences handed to the codecs and the hasher
MaxLen == 3

\* the number of strings of a restore filter
MaxFilters == 2

-----------------------------------------------------------------------------
(* Sequences of bytes / characters.                                        *)

Take(s, n) == SubSeq(s, 1, n)

Drop(s, n) == SubSeq(s, n + 1, Len(s))

Min(a, b) == IF a <= b THEN a ELSE b

\* str::starts_with
StartsWith(s, p) == Len(p) <= Len(s) /\ Take(s, Len(p)) = p

\* str::ends_with
EndsWith(s, p) == Len(p) <= Len(s) /\ Drop(s, Len(s) - Len(p)) = p

\* str::contains
Contains(s, p) == \E i \in 0..(Len(s) - Len(p)) : SubSeq(s, i + 1, i + Len(p)) = p

RECURSIVE SeqSum(_)
SeqSum(s) == IF s = <<>> THEN 0 ELSE Head(s) + SeqSum(Tail(s))

\* Ord for str / Vec<u8>: lexicographic, a proper prefix first
RECURSIVE LexLess(_, _)
LexLess(a, b) ==
    IF b = <<>> THEN FALSE
    ELSE IF a = <<>> THEN TRUE
    ELSE IF Head(a) # Head(b) THEN Head(a) < Head(b)
    ELSE LexLess(Tail(a), Tail(b))

\* the keys of a BTreeMap in iteration order
RECURSIVE SortedKeys(_)
SortedKeys(S) ==
    IF S = {} THEN <<>>
    ELSE LET m == CHOOSE x \in S : \A y \in S \ {x} : LexLess(x, y)
         IN  <<m>> \o SortedKeys(S \ {m})

\* u64::to_le_bytes, k bytes of it
RECURSIVE LeBytes(_, _)
LeBytes(n, k) == IF k = 0 THEN <<>> ELSE <<n % 256>> \o LeBytes(n \div 256, k - 1)

Ok(v) == [ok |-> TRUE, v |-> v, err |-> "none"]

Err(e) == [ok |-> FALSE, v |-> <<>>, err |-> e]

-----------------------------------------------------------------------------
(* hasher.rs                                                               *)

BUF_SIZE == 65536

HexDigit(n) == IF n < 10 THEN 48 + n ELSE 87 + n

\* blake3::Hash::to_hex: two lowercase hex digits per byte
RECURSIVE ToHex(_)
ToHex(d) ==
    IF d = <<>> THEN <<>>
    ELSE <<HexDigit(Head(d) \div 16), HexDigit(Head(d) % 16)>> \o ToHex(Tail(d))

\* a hasher that forgets what it absorbed before the last chunk
HasherUpdateForgets(state, chunk) == chunk

\* The state of a blake3::Hasher after update(chunk): BLAKE3 is modelled as a
\* collision-free digest of everything absorbed so far (spec section 3:
\* equal hash implies equal content), so the state is the absorbed input.
HasherUpdate(state, chunk) == state \o chunk

\* Hasher::finalize: the digest binds the length and the bytes absorbed
HasherFinalize(state) == <<Len(state) % 256>> \o state

hash_bytes(data) == ToHex(HasherFinalize(HasherUpdate(<<>>, data)))

\* the read loop of hash_file: chunks of at most BUF_SIZE until read returns 0
RECURSIVE HashLoop(_, _)
HashLoop(state, rest) ==
    IF rest = <<>> THEN state
    ELSE LET n == Min(BUF_SIZE, Len(rest))
         IN  HashLoop(HasherUpdate(state, Take(rest, n)), Drop(rest, n))

hash_file(content) == ToHex(HasherFinalize(HashLoop(<<>>, content)))

\* the hex digits of a BLAKE3 digest of 32 bytes
HASH_LEN == 64

\* a split after the first character
ShardAtOne(hash) == <<Take(hash, Min(1, Len(hash))), Drop(hash, Min(1, Len(hash)))>>

\* str::split_at(2.min(hash.len())), on the ASCII strings that hashes are
shard_path(hash) == <<Take(hash, Min(2, Len(hash))), Drop(hash, Min(2, Len(hash)))>>

-----------------------------------------------------------------------------
(* compress.rs                                                             *)

\* the first four bytes of every Zstandard frame (0xFD2FB528, little endian)
ZstdMagic == <<40, 181, 47, 253>>

\* b"BUT_GZIP_V1\0"
GzipMarker == <<66, 85, 84, 95, 71, 90, 73, 80, 95, 86, 49, 0>>

\* A Zstandard frame is modelled as its magic, the content size and the
\* content: what a decoder checks before it returns the content.  The level
\* changes the ratio only, never the decoded bytes.
compress_zstd(data, level) == Ok(ZstdMagic \o <<Len(data) % 256>> \o data)

decompress_zstd(data) ==
    IF /\ Len(data) >= Len(ZstdMagic) + 1
       /\ Take(data, Len(ZstdMagic)) = ZstdMagic
       /\ data[Len(ZstdMagic) + 1] = (Len(data) - Len(ZstdMagic) - 1) % 256
    THEN Ok(Drop(data, Len(ZstdMagic) + 1))
    ELSE Err("Io")

compress_gzip(data) ==
    LET compressed == compress_zstd(data, 1)
    IN  IF ~compressed.ok THEN compressed
        ELSE Ok(GzipMarker \o LeBytes(Len(data), 8) \o compressed.v)

\* a decoder that takes the length field for part of the inner stream
DecompressGzipKeepsLength(data) ==
    IF StartsWith(data, GzipMarker)
    THEN LET rest == Drop(data, Len(GzipMarker))
         IN  IF Len(rest) < 8 THEN Err("Other")
             ELSE decompress_zstd(rest)
    ELSE decompress_zstd(data)

decompress_gzip(data) ==
    IF StartsWith(data, GzipMarker)
    THEN LET rest == Drop(data, Len(GzipMarker))
         IN  IF Len(rest) < 8 THEN Err("Other")
             ELSE decompress_zstd(Drop(rest, 8))
    ELSE decompress_zstd(data)

compress(data, kind, level) ==
    CASE kind = "zstd" -> compress_zstd(data, level)
      [] kind = "gzip" -> compress_gzip(data)
      [] kind = "none" -> Ok(data)

decompress(data, kind) ==
    CASE kind = "zstd" -> decompress_zstd(data)
      [] kind = "gzip" -> decompress_gzip(data)
      [] kind = "none" -> Ok(data)

-----------------------------------------------------------------------------
(* crypto.rs                                                               *)

NONCE_LEN == 12

TAG_LEN == 16

\* blake3::derive_key(context, password): a key that is a function of the
\* password alone; distinct passwords of the model get distinct keys
derive_key(password) == (SeqSum(password) + 7 * Len(password)) % 256

\* AES-GCM's CTR keystream byte i under (key, nonce)
KeyStream(key, nonce, i) == (key + SeqSum(nonce) + i) % 256

\* the sum of the bytes of s, each weighted by its position
WeightedSum(s) == SeqSum([i \in 1..Len(s) |-> i * s[i]])

\* AES-GCM's 16-byte authentication tag over (key, nonce, ciphertext): it
\* binds the key, the length, the bytes and their order
GcmTag(key, nonce, ct) ==
    <<key, SeqSum(nonce) % 256, Len(ct) % 256, SeqSum(ct) % 256,
      WeightedSum(nonce) % 256, WeightedSum(ct) % 256>>
        \o [i \in 1..(TAG_LEN - 6) |-> (key + i) % 256]

\* Aes256Gcm::encrypt: ciphertext followed by the tag
AeadEncrypt(key, nonce, plaintext) ==
    LET ct == [i \in 1..Len(plaintext) |->
                  (plaintext[i] + KeyStream(key, nonce, i)) % 256]
    IN  ct \o GcmTag(key, nonce, ct)

\* a decryption that does not look at the tag
AeadDecryptUnchecked(key, nonce, data) ==
    IF Len(data) < TAG_LEN THEN Err("DecryptionFailed")
    ELSE LET ct == Take(data, Len(data) - TAG_LEN)
         IN  Ok([i \in 1..Len(ct) |-> (ct[i] + 256 - KeyStream(key, nonce, i)) % 256])

\* Aes256Gcm::decrypt: the plaintext iff the tag authenticates
AeadDecrypt(key, nonce, data) ==
    IF Len(data) < TAG_LEN THEN Err("DecryptionFailed")
    ELSE LET ct  == Take(data, Len(data) - TAG_LEN)
             tag == Drop(data, Len(data) - TAG_LEN)
         IN  IF tag # GcmTag(key, nonce, ct) THEN Err("DecryptionFailed")
             ELSE Ok([i \in 1..Len(ct) |->
                         (ct[i] + 256 - KeyStream(key, nonce, i)) % 256])

\* an encrypt that keeps the nonce to itself
EncryptWithoutNonce(plaintext, password, nonce) ==
    Ok(AeadEncrypt(derive_key(password), nonce, plaintext))

\* encrypt(plaintext, password); the nonce is what OsRng returned
encrypt(plaintext, password, nonce) ==
    Ok(nonce \o AeadEncrypt(derive_key(password), nonce, plaintext))

decrypt(data, password) ==
    IF Len(data) < NONCE_LEN THEN Err("DecryptionFailed")
    ELSE AeadDecrypt(derive_key(password), Take(data, NONCE_LEN), Drop(data, NONCE_LEN))

-----------------------------------------------------------------------------
(* Inputs: names, file contents, source trees, configurations.             *)

None == [some |-> FALSE, v |-> <<>>]

Some(x) == [some |-> TRUE, v |-> x]

\* target names "doc" and "docs"
NameDoc == <<100, 111, 99>>

NameDocs == <<100, 111, 99, 115>>

\* relative paths "a" and "s/b"
PathA == <<97>>

PathSB == <<115, 47, 98>>

\* file contents "hi" and "x"
ContentHi == <<104, 105>>

ContentX == <<120>>

\* passwords "pw1" and "pw2"
Pw1 == <<112, 119, 49>>

Pw2 == <<112, 119, 50>>

\* a source directory: relative path of each regular file -> its content
TreeSame == (PathA :> ContentHi) @@ (PathSB :> ContentHi)

TreeDiff == (PathA :> ContentX) @@ (PathSB :> ContentHi)

Trees == {TreeSame, TreeDiff}

Paths == UNION {DOMAIN t : t \in Trees}

\* relative paths "\u00e9" (two bytes of UTF-8) and "s\b" (a file name with
\* a backslash, legal on Unix)
PathAccent == <<195, 169>>

PathBackslash == <<115, 92, 98>>

\* source directories with a non-ASCII file name and with a backslash in one
TreeAccent == (PathA :> ContentX) @@ (PathAccent :> ContentX)

TreeBackslash == (PathSB :> ContentHi) @@ (PathBackslash :> ContentX)

MoreTrees == Trees \cup {TreeAccent, TreeBackslash}

MorePaths == UNION {DOMAIN t : t \in MoreTrees}

\* byte values of the sequences the codecs and the hasher are tried on: 0,
\* the first byte of the Zstandard magic, 'B' of the gzip marker, 255
ByteChoices == {0, 40, 66, 255}

\* the byte sequences: every one of at most MaxLen bytes, the gzip marker and
\* an empty Zstandard frame
ByteSeqs ==
    UNION {[1..n -> ByteChoices] : n \in 0..MaxLen}
        \cup {GzipMarker, ZstdMagic \o <<0>>}

\* passwords "pw1", "pw2" and "p", and two nonces of OsRng
Passwords == {Pw1, Pw2, <<112>>}

Nonces == {[i \in 1..NONCE_LEN |-> 0], [i \in 1..NONCE_LEN |-> i]}

\* CompressionKind and the levels of settings.zstd_level tried
Kinds == {"zstd", "gzip", "none"}

Levels == {1, 3, 22}

\* the strings handed to shard_path: every string of at most MaxLen of the
\* digits '0', 'a' and 'f', and strings of HASH_LEN digits that differ in the
\* first, second, third or last place
ShardInputs ==
    UNION {[1..n -> {48, 97, 102}] : n \in 0..MaxLen}
        \cup {[i \in 1..HASH_LEN |-> IF i = k THEN 97 ELSE 48] : k \in {0, 1, 2, 3, HASH_LEN}}

\* the paths is_excluded is asked about: "a", "ab", "s/b", "s/ab", "s*"
ExcludePaths == {PathA, <<97, 98>>, PathSB, <<115, 47, 97, 98>>, <<115, 42>>}

\* exclusion patterns: "*b", "*b/", "a*", "a*/", "s", "s/", "s//", "*s*",
\* "*", "/" and "b"
ExcludePatterns ==
    {<<42, 98>>, <<42, 98, 47>>, <<97, 42>>, <<97, 42, 47>>, <<115>>, <<115, 47>>,
     <<115, 47, 47>>, <<42, 115, 42>>, <<42>>, <<47>>, <<98>>}

\* the exclude lists of a target, of at most MaxPatterns patterns
ExcludeLists == UNION {[1..n -> ExcludePatterns] : n \in 0..MaxPatterns}

\* the directory "s" of the trees
DirS == <<115>>

\* One invocation's configuration: Settings (config.rs 22-50), the target's
\* BackupTarget (config.rs 54-68) and the password of the command line.
JobDoc ==
    [name |-> NameDoc, override |-> None, compression |-> "zstd", zstd_level |-> 3,
     encrypt |-> TRUE, exclude |-> <<>>, password |-> Some(Pw1)]

JobDocs ==
    [name |-> NameDocs, override |-> Some("none"), compression |-> "zstd",
     zstd_level |-> 3, encrypt |-> TRUE, exclude |-> <<>>, password |-> None]

JobDocGzip ==
    [name |-> NameDoc, override |-> Some("gzip"), compression |-> "none",
     zstd_level |-> 3, encrypt |-> FALSE, exclude |-> <<>>, password |-> Some(Pw1)]

Jobs == {JobDoc, JobDocs, JobDocGzip}

\* The targets of one configuration, as backup_all meets them: with the
\* settings and the password of JobDoc.  from is the source directory of the
\* target, None when it does not exist.
AllTargetsOf(name) ==
    {[job |-> [JobDoc EXCEPT !.name = name], from |-> from] :
        from \in {None} \cup {Some(t) : t \in Trees}}

\* config.backup, in the order of its BTreeMap: "doc", "docs", or both
AllConfigs ==
    {<<d>> : d \in AllTargetsOf(NameDoc)} \cup {<<d>> : d \in AllTargetsOf(NameDocs)}
        \cup {<<d, e>> : d \in AllTargetsOf(NameDoc), e \in AllTargetsOf(NameDocs)}

Targets == {j.name : j \in Jobs}

-----------------------------------------------------------------------------
(* manifest.rs: snapshots and the repository.                              *)

\* now.format("%Y%m%d-%H%M%S"): the clock starts at 2024-01-01 12:00:00
FormatTime(t) ==
    <<50, 48, 50, 52, 48, 49, 48, 49, 45, 49, 50, 48, 48>>
        \o <<48 + ((t \div 10) % 10), 48 + (t % 10)>>

\* Snapshot::generate_id
generate_id(target_name, t) == FormatTime(t) \o <<45>> \o target_name

StatsDefault ==
    [total_files |-> 0, new_files |-> 0, modified_files |-> 0, unchanged_files |-> 0,
     total_size |-> 0, stored_size |-> 0, deduplicated_blobs |-> 0, duration_ms |-> 0]

\* Snapshot::new; both reads of the clock return t
SnapshotNew(target_name, t, compression, encrypted) ==
    [id |-> generate_id(target_name, t), target_name |-> target_name,
     created_at |-> t, compression |-> compression, encrypted |-> encrypted,
     files |-> <<>>, stats |-> StatsDefault]

\* Snapshot::add_file
add_file(snap, relative_path, entry) ==
    LET s == snap.stats
        s1 == [s EXCEPT !.total_files = @ + 1, !.total_size = @ + entry.size]
        s2 == IF entry.deduplicated
              THEN [s1 EXCEPT !.deduplicated_blobs = @ + 1, !.unchanged_files = @ + 1]
              ELSE [s1 EXCEPT !.stored_size = @ + entry.stored_size, !.new_files = @ + 1]
        others == [p \in DOMAIN snap.files \ {relative_path} |-> snap.files[p]]
    IN  [snap EXCEPT !.stats = s2, !.files = (relative_path :> entry) @@ others]

\* the repository directory "r"
RepoPath == <<114>>

\* Path::join: an absolute component replaces the path; otherwise a separator
\* is added unless the path ends with one, then the component
PathJoin(base, comp) ==
    IF comp # <<>> /\ Head(comp) = 47 THEN comp
    ELSE IF base = <<>> \/ base[Len(base)] = 47 THEN base \o comp
    ELSE base \o <<47>> \o comp

\* blob_path
blob_path(repo_path, hash) ==
    LET sharded == shard_path(hash)
    IN  PathJoin(PathJoin(PathJoin(repo_path, <<98, 108, 111, 98, 115>>), sharded[1]),
                 sharded[2])

\* a dedup probe that never finds the blob
BlobExistsNever(store, hash) == FALSE

\* blob_exists
blob_exists(store, hash) == hash \in DOMAIN store

\* a store_blob whose write lands nowhere
StoreBlobNowhere(store, hash, data) == store

\* store_blob: std::fs::write creates or truncates the file and writes data
store_blob(store, hash, data) ==
    (hash :> data) @@ [h \in DOMAIN store \ {hash} |-> store[h]]

\* a remove_file that fails, the error ignored
RemoveBlobFails(store, hash) == store

\* std::fs::remove_file of a blob
remove_blob(store, hash) == [h \in DOMAIN store \ {hash} |-> store[h]]

\* A manifest file: the JSON of a snapshot, whole or cut short by a write that
\* did not finish.  Snapshot::from_json parses only a whole file; a file cut
\* inside a multi-byte character is not UTF-8 any more.
ManifestFile(snap) == [snap |-> snap, whole |-> TRUE, utf8 |-> TRUE]

\* save_snapshot: std::fs::write to snapshots/<id>.json
save_snapshot(dir, snap) ==
    (snap.id :> ManifestFile(snap)) @@ [i \in DOMAIN dir \ {snap.id} |-> dir[i]]

\* list_snapshots, as a set: every manifest that parses
ListedSet(dir) == {dir[i].snap : i \in {j \in DOMAIN dir : dir[j].whole}}

\* every order of S that sort_by(created_at) can leave (ascending); equal
\* keys stay in the order read_dir happened to give
RECURSIVE SortedAsc(_)
SortedAsc(S) ==
    IF S = {} THEN {<<>>}
    ELSE UNION {{<<x>> \o t : t \in SortedAsc(S \ {x})} :
                x \in {y \in S : \A z \in S : y.created_at <= z.created_at}}

\* a sort that leaves the oldest first
SortedOldestFirst(S) == SortedAsc(S)

RECURSIVE SortedDesc(_)
SortedDesc(S) ==
    IF S = {} THEN {<<>>}
    ELSE UNION {{<<x>> \o t : t \in SortedDesc(S \ {x})} :
                x \in {y \in S : \A z \in S : y.created_at >= z.created_at}}

\* list_snapshots, line 221: read_to_string(&path)? succeeds on every file
ListOk(dir) == \A i \in DOMAIN dir : dir[i].utf8

\* list_snapshots: the possible results
list_snapshots(dir) ==
    IF ListOk(dir) THEN {Ok(l) : l \in SortedAsc(ListedSet(dir))} ELSE {Err("Io")}

\* a lookup that settles for the first of several matches
FindFirstMatch(dir, id_prefix) ==
    {IF ~all.ok THEN all
     ELSE LET matches == SelectSeq(all.v, LAMBDA sn : StartsWith(sn.id, id_prefix))
          IN  IF Len(matches) = 0 THEN Ok(None) ELSE Ok(Some(matches[1]))
        : all \in list_snapshots(dir)}

\* find_snapshot: the possible results
find_snapshot(dir, id_prefix) ==
    {IF ~all.ok THEN all
     ELSE LET matches == SelectSeq(all.v, LAMBDA sn : StartsWith(sn.id, id_prefix))
          IN  CASE Len(matches) = 0 -> Ok(None)
                [] Len(matches) = 1 -> Ok(Some(matches[1]))
                [] OTHER -> Err("Ambiguous")
        : all \in list_snapshots(dir)}

\* a listing that does not look at the target name
ListedForAnyTarget(dir, target) == ListedSet(dir)

\* list_snapshots_for_target, as a set
ListedForTarget(dir, target) == {s \in ListedSet(dir) : s.target_name = target}

\* the hashes of a snapshot's entries
HashesOf(snap) == {snap.files[p].hash : p \in DOMAIN snap.files}

\* a reference scan that reads the manifests of the snapshot's own target only
ReferencedBySameTarget(dir, snapshot) ==
    UNION {HashesOf(s) : s \in {t \in ListedSet(dir) :
                                  t.id # snapshot.id /\ t.target_name = snapshot.target_name}}

\* a reference scan made once, over the manifests prune_snapshots found when
\* it began
ReferencedAtPruneStart(dir, snapshot) ==
    UNION {HashesOf(s) : s \in {t \in ListedSet(pr.dir0) : t.id # snapshot.id}}

\* delete_snapshot, first loop: hashes referenced by the other snapshots
ReferencedByOthers(dir, snapshot) ==
    UNION {HashesOf(s) : s \in {t \in ListedSet(dir) : t.id # snapshot.id}}

\* a test that takes every blob of the deleted snapshot for an orphan
IsOrphanAlways(referenced, store, hash) == blob_exists(store, hash)

\* a test that finds no orphan: delete_snapshot goes straight to the manifest
IsOrphanNever(referenced, store, hash) == FALSE

\* delete_snapshot, lines 280-282: the blob is unreferenced and on disk
IsOrphan(referenced, store, hash) == hash \notin referenced /\ blob_exists(store, hash)

-----------------------------------------------------------------------------
(* backup.rs: helpers of backup_target.                                    *)

\* str::trim_end_matches('/')
RECURSIVE TrimEndSlash(_)
TrimEndSlash(s) ==
    IF s # <<>> /\ s[Len(s)] = 47 THEN TrimEndSlash(Take(s, Len(s) - 1)) ELSE s

\* Path::components of a relative path: the non-empty parts between '/'
RECURSIVE Components(_, _)
Components(s, cur) ==
    IF s = <<>> THEN (IF cur = <<>> THEN <<>> ELSE <<cur>>)
    ELSE IF Head(s) = 47
         THEN (IF cur = <<>> THEN <<>> ELSE <<cur>>) \o Components(Tail(s), <<>>)
         ELSE Components(Tail(s), Append(cur, Head(s)))

\* a loop that tries the trailing '*' before the leading one
PatternMatchesPrefixFirst(rel, pattern) ==
    LET pat == TrimEndSlash(pattern)
    IN  IF pat # <<>> /\ pat[Len(pat)] = 42
        THEN StartsWith(rel, Take(pat, Len(pat) - 1))
        ELSE IF pat # <<>> /\ Head(pat) = 42
             THEN EndsWith(rel, Tail(pat))
             ELSE LET comps == Components(rel, <<>>)
                  IN  \E i \in 1..Len(comps) : comps[i] = TrimEndSlash(pat)

\* one turn of the loop of is_excluded
PatternMatches(rel, pattern) ==
    LET pat == TrimEndSlash(pattern)
    IN  IF pat # <<>> /\ Head(pat) = 42
        THEN EndsWith(rel, Tail(pat))
        ELSE IF pat # <<>> /\ pat[Len(pat)] = 42
             THEN StartsWith(rel, Take(pat, Len(pat) - 1))
             ELSE LET comps == Components(rel, <<>>)
                  IN  \E i \in 1..Len(comps) : comps[i] = TrimEndSlash(pat)

is_excluded(rel, patterns) == \E i \in 1..Len(patterns) : PatternMatches(rel, patterns[i])

\* The directories on the way to a file: "s" for "s/b"
ParentDirs(path) ==
    LET comps == Components(path, <<>>)
    IN  {comps[i] : i \in 1..(Len(comps) - 1)}

\* The files the walk of backup_target collects: WalkDir's entries with the
\* errors dropped (filter_map(|e| e.ok())), regular files only, exclusions
\* applied.  `unreadable` are the directories WalkDir cannot read: it yields
\* an Err for each, and nothing beneath it.
WalkFiles(tree, unreadable, exclude) ==
    {p \in DOMAIN tree : ParentDirs(p) \cap unreadable = {} /\ ~is_excluded(p, exclude)}

\* backup_target, line 77: relative.replace('\\', "/")
NormalizeSeparators(s) == [i \in 1..Len(s) |-> IF s[i] = 92 THEN 47 ELSE s[i]]

\* target.compression.unwrap_or(settings.compression)
EffectiveCompression(job) == IF job.override.some THEN job.override.v ELSE job.compression

\* encryption that follows settings.encrypt alone
EncryptedWhenSet(job) == job.encrypt

\* settings.encrypt && password.is_some()
EffectiveEncrypted(job) == job.encrypt /\ job.password.some

\* a loop that stores the blob of every file, already stored or not
NeedsStoreAlways(store, hash) == TRUE

\* backup_target, lines 105-120: the branch of the loop that stores a blob is
\* taken when blob_exists is false
NeedsStore(store, hash) == ~blob_exists(store, hash)

\* What OsRng returns for the k-th encrypt call of the n-th backup: a nonce
\* no other call of the behaviour gets
FreshNonce(n, k) == <<n, k>> \o [i \in 1..(NONCE_LEN - 2) |-> 0]

\* compress, then encrypt when enabled: final_data of backup_target
Pipeline(raw_data, compression, level, encrypted, password, nonce) ==
    LET compressed == compress(raw_data, compression, level)
    IN  IF ~compressed.ok THEN compressed
        ELSE IF encrypted THEN encrypt(compressed.v, password.v, nonce)
        ELSE compressed

\* std::fs::metadata of a source file: permissions and mtime are the same
\* for every file of the model
MetaPermissions == Some(420)

MetaModified == 0

\* the SnapshotStats backup_target assigns after its loop
FinalStats(total_files, dedup_count, total_original_size, total_stored_size) ==
    [total_files |-> total_files, new_files |-> total_files - dedup_count,
     modified_files |-> 0, unchanged_files |-> dedup_count,
     total_size |-> total_original_size, stored_size |-> total_stored_size,
     deduplicated_blobs |-> dedup_count, duration_ms |-> 0]

-----------------------------------------------------------------------------
(* restore.rs: restore_snapshot.                                           *)

\* a filter that keeps the paths that begin with a filter string
SelectedByPrefix(snapshot, filter) ==
    {p \in DOMAIN snapshot.files :
        ~filter.some \/ \E i \in 1..Len(filter.v) : StartsWith(p, filter.v[i])}

\* the filter of restore_snapshot (lines 63-73)
Selected(snapshot, filter) ==
    {p \in DOMAIN snapshot.files :
        ~filter.some
        \/ \E i \in 1..Len(filter.v) :
              StartsWith(p, filter.v[i]) \/ Contains(p, filter.v[i])}

\* a restore loop that skips the integrity check
DecodeEntryUnverified(snapshot, entry, password, verify, store) ==
    IF ~blob_exists(store, entry.hash) THEN Err("BlobMissing")
    ELSE LET raw_blob == store[entry.hash]
             compressed_data ==
                 IF snapshot.encrypted
                 THEN (IF ~password.some THEN Err("NoPassword")
                       ELSE decrypt(raw_blob, password.v))
                 ELSE Ok(raw_blob)
         IN  IF ~compressed_data.ok THEN compressed_data
             ELSE LET file_data == decompress(compressed_data.v, snapshot.compression)
                  IN  IF ~file_data.ok THEN Err("DecompressionFailed")
                      ELSE file_data

\* a restore loop that falls back on the password "pw1" when none is given
DecodeEntryDefaultPassword(snapshot, entry, password, verify, store) ==
    IF ~blob_exists(store, entry.hash) THEN Err("BlobMissing")
    ELSE LET raw_blob == store[entry.hash]
             compressed_data ==
                 IF snapshot.encrypted
                 THEN decrypt(raw_blob, IF password.some THEN password.v ELSE Pw1)
                 ELSE Ok(raw_blob)
         IN  IF ~compressed_data.ok THEN compressed_data
             ELSE LET file_data == decompress(compressed_data.v, snapshot.compression)
                  IN  IF ~file_data.ok THEN Err("DecompressionFailed")
                      ELSE IF verify /\ hash_bytes(file_data.v) # entry.hash
                           THEN Err("IntegrityFailure")
                           ELSE file_data

\* One turn of the loop of restore_snapshot up to the integrity check:
\* read_blob, decrypt, decompress, verify.  Ok(file_data) or the error.
DecodeEntry(snapshot, entry, password, verify, store) ==
    IF ~blob_exists(store, entry.hash) THEN Err("BlobMissing")
    ELSE LET raw_blob == store[entry.hash]
             compressed_data ==
                 IF snapshot.encrypted
                 THEN (IF ~password.some THEN Err("NoPassword")
                       ELSE decrypt(raw_blob, password.v))
                 ELSE Ok(raw_blob)
         IN  IF ~compressed_data.ok THEN compressed_data
             ELSE LET file_data == decompress(compressed_data.v, snapshot.compression)
                  IN  IF ~file_data.ok THEN Err("DecompressionFailed")
                      ELSE IF verify /\ hash_bytes(file_data.v) # entry.hash
                           THEN Err("IntegrityFailure")
                           ELSE file_data

\* a write that leaves the target directory as it is
WriteFileNowhere(dir, path, data) == dir

\* std::fs::write(target_dir/relative_path, file_data)
WriteFile(dir, path, data) == (path :> data) @@ [q \in DOMAIN dir \ {path} |-> dir[q]]

\* the loop of restore_snapshot over the selected entries, in BTreeMap order
RECURSIVE RestoreLoop(_, _, _, _, _)
RestoreLoop(snapshot, opts, store, paths, acc) ==
    IF paths = <<>> THEN acc
    ELSE LET path  == Head(paths)
             entry == snapshot.files[path]
             data  == DecodeEntry(snapshot, entry, opts.password, opts.verify, store)
         IN  IF ~data.ok
             THEN [acc EXCEPT !.ok = FALSE, !.err = data.err, !.failed_at = path]
             ELSE RestoreLoop(snapshot, opts, store, Tail(paths),
                      [acc EXCEPT !.dir = Some(WriteFile(acc.dir.v, path, data.v)),
                                  !.files_restored = @ + 1,
                                  !.bytes_restored = @ + entry.size])

\* a restore whose preflight does not look at --force
RestoreIgnoringForce(snapshot, opts, store) ==
    LET start == [ok |-> TRUE, err |-> "none", failed_at |-> <<>>, dir |-> opts.dir,
                  files_restored |-> 0, bytes_restored |-> 0]
        is_empty == IF opts.readable THEN DOMAIN opts.dir.v = {} ELSE FALSE
    IN  IF opts.dir.some /\ ~is_empty
        THEN [start EXCEPT !.ok = FALSE, !.err = "TargetExists"]
        ELSE RestoreLoop(snapshot, opts, store,
                 SortedKeys(Selected(snapshot, opts.filter)),
                 [start EXCEPT !.dir = IF opts.dir.some THEN opts.dir ELSE Some(<<>>)])

\* restore_snapshot; opts.dir is target_dir before the call (None: it does not
\* exist), opts.readable whether read_dir of it succeeds (it fails on a
\* directory without read permission), the result's dir is target_dir after
\* the call
restore_snapshot(snapshot, opts, store) ==
    LET start == [ok |-> TRUE, err |-> "none", failed_at |-> <<>>, dir |-> opts.dir,
                  files_restored |-> 0, bytes_restored |-> 0]
        is_empty == IF opts.readable THEN DOMAIN opts.dir.v = {} ELSE FALSE
    IN  IF opts.dir.some /\ ~opts.force /\ ~is_empty
        THEN [start EXCEPT !.ok = FALSE, !.err = "TargetExists"]
        ELSE RestoreLoop(snapshot, opts, store,
                 SortedKeys(Selected(snapshot, opts.filter)),
                 [start EXCEPT !.dir = IF opts.dir.some THEN opts.dir ELSE Some(<<>>)])

\* the restore options the commands of this specification use: an empty
\* target directory, no --force, no filter
RestoreOptions ==
    {[dir |-> Some(<<>>), readable |-> TRUE, password |-> p, force |-> FALSE,
      verify |-> v, filter |-> None] :
        p \in {None, Some(Pw1)}, v \in BOOLEAN}

\* filter strings: "a", "s", "b", "sb" and the empty string
FilterStrings == {PathA, DirS, <<98>>, <<115, 98>>, <<>>}

\* the restore options with and without a filter of at most MaxFilters
\* strings: an empty target directory, the password of the jobs
FilterOptions ==
    {[dir |-> Some(<<>>), readable |-> TRUE, password |-> Some(Pw1), force |-> FALSE,
      verify |-> TRUE, filter |-> f] :
        f \in {None} \cup {Some(l) : l \in UNION {[1..n -> FilterStrings] : n \in 0..MaxFilters}}}

\* the target directories of a restore: absent, empty, holding a file "a"
TargetDirs == {None, Some(<<>>), Some(PathA :> ContentHi)}

\* restore options over the target directories, readable or not, with and
\* without --force
PreflightOptions ==
    {o \in [dir : TargetDirs, readable : BOOLEAN, password : {Some(Pw1)},
            force : BOOLEAN, verify : {TRUE}, filter : {None}] :
        o.dir.some \/ o.readable}

\* a diff whose size delta is taken the wrong way round
DiffDeltaReversed(older, newer) ==
    LET newer_paths == SortedKeys(DOMAIN newer.files)
        older_paths == SortedKeys(DOMAIN older.files)
        added    == SelectSeq(newer_paths, LAMBDA p : p \notin DOMAIN older.files)
        modified == SelectSeq(newer_paths, LAMBDA p :
                        /\ p \in DOMAIN older.files
                        /\ older.files[p].hash # newer.files[p].hash)
        removed  == SelectSeq(older_paths, LAMBDA p : p \notin DOMAIN newer.files)
    IN  [added |-> added, modified |-> modified, removed |-> removed,
         added_size |-> SeqSum([i \in 1..Len(added) |-> newer.files[added[i]].size]),
         modified_size_delta |->
             SeqSum([i \in 1..Len(modified) |->
                        older.files[modified[i]].size - newer.files[modified[i]].size]),
         removed_size |-> SeqSum([i \in 1..Len(removed) |-> older.files[removed[i]].size])]

\* a diff that reports a modified path as added too
DiffModifiedAsAdded(older, newer) ==
    LET newer_paths == SortedKeys(DOMAIN newer.files)
        older_paths == SortedKeys(DOMAIN older.files)
        modified == SelectSeq(newer_paths, LAMBDA p :
                        /\ p \in DOMAIN older.files
                        /\ older.files[p].hash # newer.files[p].hash)
        added    == SelectSeq(newer_paths, LAMBDA p :
                        p \notin DOMAIN older.files \/ p \in {modified[i] : i \in 1..Len(modified)})
        removed  == SelectSeq(older_paths, LAMBDA p : p \notin DOMAIN newer.files)
    IN  [added |-> added, modified |-> modified, removed |-> removed,
         added_size |-> SeqSum([i \in 1..Len(added) |-> newer.files[added[i]].size]),
         modified_size_delta |->
             SeqSum([i \in 1..Len(modified) |->
                        newer.files[modified[i]].size - older.files[modified[i]].size]),
         removed_size |-> SeqSum([i \in 1..Len(removed) |-> older.files[removed[i]].size])]

\* diff_snapshots: the two loops, each in the BTreeMap order of its map
diff_snapshots(older, newer) ==
    LET newer_paths == SortedKeys(DOMAIN newer.files)
        older_paths == SortedKeys(DOMAIN older.files)
        added    == SelectSeq(newer_paths, LAMBDA p : p \notin DOMAIN older.files)
        modified == SelectSeq(newer_paths, LAMBDA p :
                        /\ p \in DOMAIN older.files
                        /\ older.files[p].hash # newer.files[p].hash)
        removed  == SelectSeq(older_paths, LAMBDA p : p \notin DOMAIN newer.files)
    IN  [added |-> added, modified |-> modified, removed |-> removed,
         added_size |-> SeqSum([i \in 1..Len(added) |-> newer.files[added[i]].size]),
         modified_size_delta |->
             SeqSum([i \in 1..Len(modified) |->
                        newer.files[modified[i]].size - older.files[modified[i]].size]),
         removed_size |-> SeqSum([i \in 1..Len(removed) |-> older.files[removed[i]].size])]

-----------------------------------------------------------------------------
(* The state machine: one command of the CLI runs at a time.               *)

NoRet == [op |-> "none"]

BkNone == [running |-> FALSE]

PrNone == [running |-> FALSE]

Init ==
    /\ now = 0
    /\ nb = 0
    /\ snapshots = <<>>
    /\ blobs = <<>>
    /\ pc = "idle"
    /\ bk = BkNone
    /\ pr = PrNone
    /\ ret = NoRet
    /\ tampered = {}

\* A second passes between two commands.  The model lets the clock run no
\* further ahead than one second per backup started.
Tick ==
    /\ pc = "idle"
    /\ now < nb
    /\ now' = now + 1
    /\ UNCHANGED <<nb, snapshots, blobs, pc, bk, pr, ret, tampered>>

\* backup_target, lines 36-66: the source exists; Snapshot::new; the walk
BackupStart(job, tree, unreadable) ==
    /\ pc = "idle"
    /\ nb < MaxBackups
    /\ nb' = nb + 1
    /\ LET files == WalkFiles(tree, unreadable, job.exclude)
       IN  bk' = [running |-> TRUE, job |-> job, tree |-> tree, files |-> files,
                  snapshot |-> SnapshotNew(job.name, now, EffectiveCompression(job),
                                           EffectiveEncrypted(job)),
                  todo |-> files, done |-> <<>>, total_files |-> Cardinality(files),
                  total_original_size |-> 0, total_stored_size |-> 0,
                  dedup_count |-> 0, nstored |-> 0, dir0 |-> snapshots]
    /\ pc' = "bk_loop"
    /\ UNCHANGED <<now, snapshots, blobs, pr, ret, tampered>>

\* backup_target, lines 40-42: target.from does not exist
BackupNoSource(job) ==
    /\ pc = "idle"
    /\ ret' = [op |-> "backup", ok |-> FALSE, err |-> "SourceNotFound", step |-> "source"]
    /\ pc' = "returned"
    /\ UNCHANGED <<now, nb, snapshots, blobs, bk, pr, tampered>>

\* backup_target, lines 68-163: one turn of the loop, for the file the walk
\* yielded next
BackupFile(path) ==
    /\ pc = "bk_loop"
    /\ path \in bk.todo
    /\ LET content   == bk.tree[path]
           file_size == Len(content)
           hash      == hash_file(content)
           snap      == bk.snapshot
           relative  == NormalizeSeparators(path)
           entry     == [hash |-> hash, size |-> file_size, stored_size |-> 0,
                         permissions |-> MetaPermissions, modified |-> MetaModified,
                         deduplicated |-> TRUE]
           seen      == [bk EXCEPT !.todo = @ \ {path}, !.done = Append(@, path),
                                   !.total_original_size = @ + file_size]
       IN  IF blob_exists(blobs, hash)
           THEN /\ bk' = [seen EXCEPT !.dedup_count = @ + 1,
                                      !.snapshot = add_file(snap, relative, entry)]
                /\ UNCHANGED <<blobs, pc, ret>>
           ELSE LET final_data == Pipeline(content, snap.compression, bk.job.zstd_level,
                                      snap.encrypted, bk.job.password,
                                      FreshNonce(nb, bk.nstored + 1))
                    stored_size == Len(final_data.v)
                IN  IF ~final_data.ok
                    THEN /\ ret' = [op |-> "backup", ok |-> FALSE, err |-> final_data.err,
                                       step |-> "file"]
                         /\ pc' = "returned"
                         /\ UNCHANGED <<blobs, bk>>
                    ELSE /\ blobs' = store_blob(blobs, hash, final_data.v)
                         /\ bk' = [seen EXCEPT
                                !.total_stored_size = @ + stored_size,
                                !.nstored = @ + 1,
                                !.snapshot = add_file(snap, relative,
                                    [entry EXCEPT !.stored_size = stored_size,
                                                  !.deduplicated = FALSE])]
                         /\ UNCHANGED <<pc, ret>>
    /\ UNCHANGED <<now, nb, snapshots, pr, tampered>>

\* backup_target, lines 165-182: the stats, save_snapshot, Ok(snapshot)
BackupCommit ==
    /\ pc = "bk_loop"
    /\ bk.todo = {}
    /\ LET snap == [bk.snapshot EXCEPT !.stats =
                       FinalStats(bk.total_files, bk.dedup_count,
                                  bk.total_original_size, bk.total_stored_size)]
       IN  /\ snapshots' = save_snapshot(snapshots, snap)
           /\ bk' = [bk EXCEPT !.snapshot = snap]
           /\ ret' = [op |-> "backup", ok |-> TRUE, err |-> "none", snapshot |-> snap]
    /\ pc' = "returned"
    /\ UNCHANGED <<now, nb, blobs, pr, tampered>>

\* prune_snapshots, lines 213-224
PruneStart(target, keep) ==
    /\ pc = "idle"
    /\ LET listed == ListedForTarget(snapshots, target)
           begun  == [running |-> TRUE, target |-> target, keep |-> keep,
                      dir0 |-> snapshots, store0 |-> blobs,
                      to_delete |-> <<>>, deleted |-> 0, freed |-> 0,
                      cur |-> None, referenced |-> {}, entries |-> <<>>,
                      freed_bytes |-> 0]
       IN  IF ~ListOk(snapshots)
           THEN /\ pr' = begun
                /\ ret' = [op |-> "prune", ok |-> FALSE, deleted |-> 0, freed |-> 0]
                /\ pc' = "returned"
           ELSE IF Cardinality(listed) <= keep
           THEN /\ pr' = begun
                /\ ret' = [op |-> "prune", ok |-> TRUE, deleted |-> 0, freed |-> 0]
                /\ pc' = "returned"
           ELSE /\ \E sorted \in SortedDesc(listed) :
                      pr' = [begun EXCEPT !.to_delete = Drop(sorted, keep)]
                /\ pc' = "pr_loop"
                /\ ret' = ret
    /\ UNCHANGED <<now, nb, snapshots, blobs, bk, tampered>>

\* delete_snapshot, lines 264-278: the hashes the other snapshots reference
DeleteStart ==
    /\ pc = "pr_loop"
    /\ pr.to_delete # <<>>
    /\ LET snap == Head(pr.to_delete)
       IN  pr' = [pr EXCEPT !.cur = Some(snap),
                            !.referenced = ReferencedByOthers(snapshots, snap),
                            !.entries = SortedKeys(DOMAIN snap.files),
                            !.freed_bytes = 0]
    /\ pc' = "del_blobs"
    /\ UNCHANGED <<now, nb, snapshots, blobs, bk, ret, tampered>>

\* delete_snapshot, lines 279-287: one turn of the loop over the entries
DeleteBlob ==
    /\ pc = "del_blobs"
    /\ pr.entries # <<>>
    /\ LET hash == pr.cur.v.files[Head(pr.entries)].hash
       IN  IF IsOrphan(pr.referenced, blobs, hash)
           THEN /\ pr' = [pr EXCEPT !.entries = Tail(@),
                                    !.freed_bytes = @ + Len(blobs[hash])]
                /\ blobs' = remove_blob(blobs, hash)
           ELSE /\ pr' = [pr EXCEPT !.entries = Tail(@)]
                /\ blobs' = blobs
    /\ UNCHANGED <<now, nb, snapshots, pc, bk, ret, tampered>>

\* delete_snapshot, lines 289-295, and prune_snapshots, lines 228-229
DeleteManifest ==
    /\ pc = "del_blobs"
    /\ pr.entries = <<>>
    /\ snapshots' = [i \in DOMAIN snapshots \ {pr.cur.v.id} |-> snapshots[i]]
    /\ pr' = [pr EXCEPT !.to_delete = Tail(@), !.cur = None,
                        !.freed = @ + pr.freed_bytes, !.deleted = @ + 1]
    /\ pc' = "pr_loop"
    /\ UNCHANGED <<now, nb, blobs, bk, ret, tampered>>

\* prune_snapshots, line 232
PruneReturn ==
    /\ pc = "pr_loop"
    /\ pr.to_delete = <<>>
    /\ ret' = [op |-> "prune", ok |-> TRUE, deleted |-> pr.deleted, freed |-> pr.freed]
    /\ pc' = "returned"
    /\ UNCHANGED <<now, nb, snapshots, blobs, bk, pr, tampered>>

\* restore_snapshot of the snapshot backup_target has just returned
RestoreReturned(opts) ==
    /\ pc = "returned"
    /\ ret.op = "backup"
    /\ ret.ok
    /\ ret' = [op |-> "restore", snapshot |-> ret.snapshot, opts |-> opts,
               fresh |-> TRUE, res |-> restore_snapshot(ret.snapshot, opts, blobs)]
    /\ UNCHANGED <<now, nb, snapshots, blobs, pc, bk, pr, tampered>>

\* restore_snapshot of a snapshot of the repository (cmd_restore finds it)
RestoreListed(opts) ==
    /\ pc = "idle"
    /\ ListOk(snapshots)
    /\ \E snap \in ListedSet(snapshots) :
          ret' = [op |-> "restore", snapshot |-> snap, opts |-> opts,
                  fresh |-> FALSE, res |-> restore_snapshot(snap, opts, blobs)]
    /\ pc' = "returned"
    /\ UNCHANGED <<now, nb, snapshots, blobs, bk, pr, tampered>>

\* a backup_all that gives up at the first target that fails
CollectStopsAtFailure(all, name, result) ==
    IF result.ok
    THEN [all EXCEPT !.snapshots = Append(@, result.snapshot)]
    ELSE [all EXCEPT !.failed = Append(@, name), !.todo = <<>>]

\* backup_all, lines 197-205: the match on what backup_target returned
CollectOutcome(all, name, result) ==
    IF result.ok
    THEN [all EXCEPT !.snapshots = Append(@, result.snapshot)]
    ELSE [all EXCEPT !.failed = Append(@, name)]

\* backup_all, lines 186-187: the locals of backup_all are kept in bk.all
\* while it runs
BackupAllStart(config) ==
    /\ pc = "idle"
    /\ nb + Len(config) <= MaxBackups
    /\ bk' = [running |-> FALSE,
              all |-> [config |-> config, todo |-> config, cur |-> <<>>,
                       snapshots |-> <<>>, failed |-> <<>>, dir0 |-> snapshots]]
    /\ pc' = "all_loop"
    /\ UNCHANGED <<now, nb, snapshots, blobs, pr, ret, tampered>>

\* backup_all, lines 189-197: the next target; backup_target begins (lines
\* 36-66) or finds no source (lines 40-42)
BackupAllTarget ==
    /\ pc = "all_loop"
    /\ bk.all.todo # <<>>
    /\ LET target == Head(bk.all.todo)
           all    == [bk.all EXCEPT !.todo = Tail(@), !.cur = target.job.name]
       IN  IF ~target.from.some
           THEN /\ bk' = [running |-> FALSE, all |-> all]
                /\ ret' = [op |-> "backup", ok |-> FALSE, err |-> "SourceNotFound",
                           step |-> "source"]
                /\ pc' = "returned"
                /\ nb' = nb
           ELSE LET files == WalkFiles(target.from.v, {}, target.job.exclude)
                IN  /\ bk' = [running |-> TRUE, job |-> target.job, tree |-> target.from.v,
                              files |-> files,
                              snapshot |-> SnapshotNew(target.job.name, now,
                                              EffectiveCompression(target.job),
                                              EffectiveEncrypted(target.job)),
                              todo |-> files, done |-> <<>>,
                              total_files |-> Cardinality(files),
                              total_original_size |-> 0, total_stored_size |-> 0,
                              dedup_count |-> 0, nstored |-> 0, dir0 |-> snapshots,
                              all |-> all]
                    /\ pc' = "bk_loop"
                    /\ nb' = nb + 1
                    /\ ret' = ret
    /\ UNCHANGED <<now, snapshots, blobs, pr, tampered>>

\* backup_all, lines 197-206: backup_target has returned to backup_all
BackupAllCollect ==
    /\ pc = "returned"
    /\ ret.op = "backup"
    /\ "all" \in DOMAIN bk
    /\ bk' = [running |-> FALSE, all |-> CollectOutcome(bk.all, bk.all.cur, ret)]
    /\ ret' = NoRet
    /\ pc' = "all_loop"
    /\ UNCHANGED <<now, nb, snapshots, blobs, pr, tampered>>

\* backup_all, line 208
BackupAllReturn ==
    /\ pc = "all_loop"
    /\ bk.all.todo = <<>>
    /\ ret' = [op |-> "backup_all", ok |-> TRUE, config |-> bk.all.config,
               snapshots |-> bk.all.snapshots, failed |-> bk.all.failed,
               dir0 |-> bk.all.dir0]
    /\ bk' = BkNone
    /\ pc' = "returned"
    /\ UNCHANGED <<now, nb, snapshots, blobs, pr, tampered>>

\* the command is over: its locals and its result are gone
Return ==
    /\ pc = "returned"
    /\ pc' = "idle"
    /\ bk' = BkNone
    /\ pr' = PrNone
    /\ ret' = NoRet
    /\ UNCHANGED <<now, nb, snapshots, blobs, tampered>>

\* final_data of the loop of backup_target for the file at path
FinalData(path) ==
    Pipeline(bk.tree[path], bk.snapshot.compression, bk.job.zstd_level,
             bk.snapshot.encrypted, bk.job.password, FreshNonce(nb, bk.nstored + 1))

\* What an interrupted std::fs::write leaves at its path: the file is
\* created and truncated first, then filled; the write stopped after k bytes.
PartialWrite(data, k) == Take(data, k)

\* What is left of a blob whose step failed: Some(k), the k bytes an
\* interrupted write got through, or nothing written at all
TornChoices == {[some |-> FALSE, v |-> 0]} \cup {Some(k) : k \in 0..MaxTorn}

\* backup_target, lines 82-136: a `?` of the loop returns the error of
\* metadata, hash_file, fs::read, compress, encrypt or store_blob; or the
\* process is killed there.  torn is what store_blob's interrupted write left
\* at the blob's path, as a number of bytes (none: the step failed
\* elsewhere, nothing was written).
BackupFileFails(path, torn, killed) ==
    /\ pc = "bk_loop"
    /\ path \in bk.todo
    /\ LET hash == hash_file(bk.tree[path])
       IN  IF torn.some
           THEN /\ ~blob_exists(blobs, hash)
                /\ torn.v < Len(FinalData(path).v)
                /\ blobs' = store_blob(blobs, hash, PartialWrite(FinalData(path).v, torn.v))
           ELSE blobs' = blobs
    /\ IF killed
       THEN pc' = "idle" /\ bk' = BkNone /\ ret' = NoRet
       ELSE /\ pc' = "returned"
            /\ bk' = bk
            /\ ret' = [op |-> "backup", ok |-> FALSE, err |-> "Io", step |-> "file"]
    /\ UNCHANGED <<now, nb, snapshots, pr, tampered>>

\* save_snapshot, lines 201-207: create_dir_all, the serialisation or
\* std::fs::write fails, or the process is killed there.  torn: the write
\* had created the manifest file and left it cut short.
BackupCommitFails(torn, killed) ==
    /\ pc = "bk_loop"
    /\ bk.todo = {}
    /\ snapshots' = IF torn
                    THEN (bk.snapshot.id :> [snap |-> bk.snapshot, whole |-> FALSE,
                                               utf8 |-> TRUE]) @@ snapshots
                    ELSE snapshots
    /\ IF killed
       THEN pc' = "idle" /\ bk' = BkNone /\ ret' = NoRet
       ELSE /\ pc' = "returned"
            /\ bk' = bk
            /\ ret' = [op |-> "backup", ok |-> FALSE, err |-> "Io", step |-> "manifest"]
    /\ UNCHANGED <<now, nb, blobs, pr, tampered>>

\* the manifest has a multi-byte character in it: a path or the target name
HasMultibyte(snap) ==
    \/ \E i \in 1..Len(snap.target_name) : snap.target_name[i] >= 128
    \/ \E p \in DOMAIN snap.files : \E i \in 1..Len(p) : p[i] >= 128

\* save_snapshot, line 205: the process is killed, or the write fails, with
\* the manifest file cut inside a multi-byte character
BackupCommitCutInChar(killed) ==
    /\ pc = "bk_loop"
    /\ bk.todo = {}
    /\ HasMultibyte(bk.snapshot)
    /\ snapshots' = (bk.snapshot.id :> [snap |-> bk.snapshot, whole |-> FALSE,
                                         utf8 |-> FALSE]) @@ snapshots
    /\ IF killed
       THEN pc' = "idle" /\ bk' = BkNone /\ ret' = NoRet
       ELSE /\ pc' = "returned"
            /\ bk' = bk
            /\ ret' = [op |-> "backup", ok |-> FALSE, err |-> "Io", step |-> "manifest"]
    /\ UNCHANGED <<now, nb, blobs, pr, tampered>>

\* cmd_list: list_snapshots
List ==
    /\ pc = "idle"
    /\ \E res \in list_snapshots(snapshots) : ret' = [op |-> "list", res |-> res]
    /\ pc' = "returned"
    /\ UNCHANGED <<now, nb, snapshots, blobs, bk, pr, tampered>>

\* find_snapshot, as cmd_restore, cmd_diff and cmd_verify call it
Find(id_prefix) ==
    /\ pc = "idle"
    /\ \E res \in find_snapshot(snapshots, id_prefix) :
          ret' = [op |-> "find", id_prefix |-> id_prefix, res |-> res]
    /\ pc' = "returned"
    /\ UNCHANGED <<now, nb, snapshots, blobs, bk, pr, tampered>>

\* the walk of backup_target asks is_excluded about one file
Exclude(rel, patterns) ==
    /\ pc = "idle"
    /\ ret' = [op |-> "is_excluded", rel |-> rel, patterns |-> patterns,
               res |-> is_excluded(rel, patterns)]
    /\ pc' = "returned"
    /\ UNCHANGED <<now, nb, snapshots, blobs, bk, pr, tampered>>

\* compress, and decompress of what it returned (lines 123 of backup.rs and
\* 100-107 of restore.rs, for one blob)
Codec(x, kind, level) ==
    /\ pc = "idle"
    /\ LET compressed == compress(x, kind, level)
       IN  ret' = [op |-> "codec", x |-> x, kind |-> kind, level |-> level,
                   compressed |-> compressed,
                   decompressed |-> IF compressed.ok THEN decompress(compressed.v, kind)
                                    ELSE compressed]
    /\ pc' = "returned"
    /\ UNCHANGED <<now, nb, snapshots, blobs, bk, pr, tampered>>

\* cmd_diff: diff_snapshots of two snapshots find_snapshot returned
Diff(older, newer) ==
    /\ pc = "idle"
    /\ ListOk(snapshots)
    /\ older \in ListedSet(snapshots)
    /\ newer \in ListedSet(snapshots)
    /\ ret' = [op |-> "diff", older |-> older, newer |-> newer,
               res |-> diff_snapshots(older, newer)]
    /\ pc' = "returned"
    /\ UNCHANGED <<now, nb, snapshots, blobs, bk, pr, tampered>>

\* the ways the bytes of a blob file are altered behind the program's back:
\* one byte changed, the last byte cut off, a byte appended
Alterations(data) ==
    {[data EXCEPT ![i] = (@ + 1) % 256] : i \in 1..Len(data)}
        \cup (IF Len(data) > 0 THEN {Take(data, Len(data) - 1)} ELSE {})
        \cup {Append(data, 0)}

\* the corruptions of an encrypted blob: the alterations, two neighbouring
\* bytes that differ exchanged, and the blob cut to any shorter length
Corruptions(data) ==
    Alterations(data)
        \cup {[data EXCEPT ![i] = data[i + 1], ![i + 1] = data[i]] :
                 i \in {j \in 1..(Len(data) - 1) : data[j] # data[j + 1]}}
        \cup {Take(data, k) : k \in 0..(Len(data) - 1)}

\* encrypt, and decrypt of what it returned with the same password (lines
\* 126-130 of backup.rs and 90-98 of restore.rs, for one blob)
Cipher(x, password, nonce) ==
    /\ pc = "idle"
    /\ LET encrypted == encrypt(x, password, nonce)
       IN  ret' = [op |-> "cipher", x |-> x, password |-> password, nonce |-> nonce,
                   encrypted |-> encrypted,
                   decrypted |-> IF encrypted.ok THEN decrypt(encrypted.v, password)
                                 ELSE encrypted]
    /\ pc' = "returned"
    /\ UNCHANGED <<now, nb, snapshots, blobs, bk, pr, tampered>>

\* decrypt of data that encrypt did not return for this password: too short
\* for a nonce, encrypted with another password, or corrupted
DecryptBad(data, password, how) ==
    /\ pc = "idle"
    /\ ret' = [op |-> "decrypt", data |-> data, password |-> password, how |-> how,
               res |-> decrypt(data, password)]
    /\ pc' = "returned"
    /\ UNCHANGED <<now, nb, snapshots, blobs, bk, pr, tampered>>

\* blob_exists, store_blob, read_blob or delete_snapshot asks blob_path for
\* the file of a hash, and later for the file of another
Shard(hash, other) ==
    /\ pc = "idle"
    /\ ret' = [op |-> "shard_path", hash |-> hash, other |-> other,
               res |-> shard_path(hash),
               path |-> blob_path(RepoPath, hash),
               other_path |-> blob_path(RepoPath, other)]
    /\ pc' = "returned"
    /\ UNCHANGED <<now, nb, snapshots, blobs, bk, pr, tampered>>

\* hash_file, lines 26-32: the file is open, the hasher is new
HashOpen(x) ==
    /\ pc = "idle"
    /\ bk' = [running |-> FALSE, x |-> x, state |-> <<>>, rest |-> x, reads |-> <<>>]
    /\ pc' = "hashing"
    /\ UNCHANGED <<now, nb, snapshots, blobs, pr, ret, tampered>>

\* hash_file, lines 34-43: file.read returned n bytes, as many as the buffer
\* holds or fewer
HashRead ==
    /\ pc = "hashing"
    /\ \E n \in 1..Min(BUF_SIZE, Len(bk.rest)) :
          bk' = [bk EXCEPT !.state = HasherUpdate(@, Take(bk.rest, n)),
                           !.rest = Drop(@, n), !.reads = Append(@, n)]
    /\ UNCHANGED <<now, nb, snapshots, blobs, pc, pr, ret, tampered>>

\* hash_file, lines 39-41 and 46: file.read returned 0
HashDone ==
    /\ pc = "hashing"
    /\ bk.rest = <<>>
    /\ ret' = [op |-> "hash_file", x |-> bk.x, reads |-> bk.reads,
               res |-> ToHex(HasherFinalize(bk.state))]
    /\ pc' = "returned"
    /\ UNCHANGED <<now, nb, snapshots, blobs, bk, pr, tampered>>

\* What a prune_snapshots that runs as a second process, beside the command
\* at pc, has removed so far: hash -> the other snapshots its reference scan
\* read before the removal.  The process keeps its position in pr.at.
PruneLog(p) == IF "removed" \in DOMAIN p THEN p.removed ELSE <<>>

\* prune_snapshots of a second process, lines 213-224; with no more than
\* keep snapshots it returns at once and changes nothing
ConcPruneStart(target, keep) ==
    /\ ~pr.running
    /\ ListOk(snapshots)
    /\ Cardinality(ListedForTarget(snapshots, target)) > keep
    /\ \E sorted \in SortedDesc(ListedForTarget(snapshots, target)) :
          pr' = [running |-> TRUE, at |-> "pr_loop", target |-> target, keep |-> keep,
                 dir0 |-> snapshots, store0 |-> blobs,
                 to_delete |-> Drop(sorted, keep), deleted |-> 0, freed |-> 0,
                 cur |-> None, referenced |-> {}, scanned |-> {}, entries |-> <<>>,
                 freed_bytes |-> 0, removed |-> PruneLog(pr)]
    /\ UNCHANGED <<now, nb, snapshots, blobs, pc, bk, ret, tampered>>

\* delete_snapshot of the second process, lines 264-278
ConcDeleteStart ==
    /\ pr.running
    /\ pr.at = "pr_loop"
    /\ pr.to_delete # <<>>
    /\ ListOk(snapshots)
    /\ LET snap == Head(pr.to_delete)
       IN  pr' = [pr EXCEPT !.cur = Some(snap),
                            !.referenced = ReferencedByOthers(snapshots, snap),
                            !.scanned = {t \in ListedSet(snapshots) : t.id # snap.id},
                            !.entries = SortedKeys(DOMAIN snap.files),
                            !.freed_bytes = 0,
                            !.at = "del_blobs"]
    /\ UNCHANGED <<now, nb, snapshots, blobs, pc, bk, ret, tampered>>

\* delete_snapshot of the second process, lines 279-287
ConcDeleteBlob ==
    /\ pr.running
    /\ pr.at = "del_blobs"
    /\ pr.entries # <<>>
    /\ LET hash == pr.cur.v.files[Head(pr.entries)].hash
       IN  IF IsOrphan(pr.referenced, blobs, hash)
           THEN /\ pr' = [pr EXCEPT !.entries = Tail(@),
                                    !.freed_bytes = @ + Len(blobs[hash]),
                                    !.removed = (hash :> pr.scanned) @@ @]
                /\ blobs' = remove_blob(blobs, hash)
           ELSE /\ pr' = [pr EXCEPT !.entries = Tail(@)]
                /\ blobs' = blobs
    /\ UNCHANGED <<now, nb, snapshots, pc, bk, ret, tampered>>

\* delete_snapshot of the second process, lines 289-295, and prune_snapshots,
\* lines 228-229
ConcDeleteManifest ==
    /\ pr.running
    /\ pr.at = "del_blobs"
    /\ pr.entries = <<>>
    /\ snapshots' = [i \in DOMAIN snapshots \ {pr.cur.v.id} |-> snapshots[i]]
    /\ pr' = [pr EXCEPT !.to_delete = Tail(@), !.cur = None,
                        !.freed = @ + pr.freed_bytes, !.deleted = @ + 1,
                        !.at = "pr_loop"]
    /\ UNCHANGED <<now, nb, blobs, pc, bk, ret, tampered>>

\* prune_snapshots of the second process, line 232: the process ends
ConcPruneReturn ==
    /\ pr.running
    /\ pr.at = "pr_loop"
    /\ pr.to_delete = <<>>
    /\ pr' = [running |-> FALSE, removed |-> pr.removed]
    /\ UNCHANGED <<now, nb, snapshots, blobs, pc, bk, ret, tampered>>

\* the backup command of the first process is over
ReturnBackup ==
    /\ pc = "returned"
    /\ pc' = "idle"
    /\ bk' = BkNone
    /\ ret' = NoRet
    /\ UNCHANGED <<now, nb, snapshots, blobs, pr, tampered>>

\* backup_target, lines 68-120: one turn of the loop for a file whose blob is
\* in the store already
BackupFileDedup(path) ==
    /\ pc = "bk_loop"
    /\ path \in bk.todo
    /\ ~NeedsStore(blobs, hash_file(bk.tree[path]))
    /\ BackupFile(path)

\* backup_target, lines 68-136, and store_blob, line 190: the turn of the loop
\* has reached std::fs::write, which has created or truncated the blob file
\* and written the first k bytes of final_data
BackupFileCreate(path, k) ==
    /\ pc = "bk_loop"
    /\ path \in bk.todo
    /\ NeedsStore(blobs, hash_file(bk.tree[path]))
    /\ FinalData(path).ok
    /\ k < Len(FinalData(path).v)
    /\ blobs' = store_blob(blobs, hash_file(bk.tree[path]),
                           PartialWrite(FinalData(path).v, k))
    /\ bk' = [f \in DOMAIN bk \cup {"writing"} |-> IF f = "writing" THEN path ELSE bk[f]]
    /\ pc' = "bk_write"
    /\ UNCHANGED <<now, nb, snapshots, pr, ret, tampered>>

\* store_blob, lines 190-191, and backup_target, lines 132-163: the write is
\* through, the entry is added
BackupFileFill ==
    /\ pc = "bk_write"
    /\ LET path        == bk.writing
           content     == bk.tree[path]
           final_data  == FinalData(path)
           stored_size == Len(final_data.v)
           entry       == [hash |-> hash_file(content), size |-> Len(content),
                           stored_size |-> stored_size,
                           permissions |-> MetaPermissions, modified |-> MetaModified,
                           deduplicated |-> FALSE]
           seen        == [f \in DOMAIN bk \ {"writing"} |-> bk[f]]
       IN  /\ blobs' = store_blob(blobs, entry.hash, final_data.v)
           /\ bk' = [seen EXCEPT !.todo = @ \ {path},
                                 !.done = Append(@, path),
                                 !.total_original_size = @ + entry.size,
                                 !.total_stored_size = @ + stored_size,
                                 !.nstored = @ + 1,
                                 !.snapshot = add_file(bk.snapshot,
                                                  NormalizeSeparators(path), entry)]
    /\ pc' = "bk_loop"
    /\ UNCHANGED <<now, nb, snapshots, pr, ret, tampered>>

\* restore_snapshot of a second process, lines 46-78, for a snapshot of the
\* repository: the preflight, the selection.  pr.alone is what the call would
\* return if nothing else touched the repository while it runs.
ConcRestoreStart(opts) ==
    /\ ~pr.running
    /\ ListOk(snapshots)
    /\ \E snap \in ListedSet(snapshots) :
          LET start    == [ok |-> TRUE, err |-> "none", failed_at |-> <<>>,
                           dir |-> opts.dir, files_restored |-> 0, bytes_restored |-> 0]
              is_empty == IF opts.readable THEN DOMAIN opts.dir.v = {} ELSE FALSE
              refused  == opts.dir.some /\ ~opts.force /\ ~is_empty
          IN  pr' = [running |-> TRUE,
                     at |-> IF refused THEN "rs_done" ELSE "rs_loop",
                     snapshot |-> snap, opts |-> opts,
                     paths |-> SortedKeys(Selected(snap, opts.filter)),
                     acc |-> IF refused
                             THEN [start EXCEPT !.ok = FALSE, !.err = "TargetExists"]
                             ELSE [start EXCEPT !.dir = IF opts.dir.some THEN opts.dir
                                                        ELSE Some(<<>>)],
                     alone |-> restore_snapshot(snap, opts, blobs),
                     stored0 |-> DOMAIN blobs]
    /\ UNCHANGED <<now, nb, snapshots, blobs, pc, bk, ret, tampered>>

\* restore_snapshot of the second process, lines 80-142: one turn of the
\* loop, on the blob as it is on disk now
ConcRestoreEntry ==
    /\ pr.running
    /\ pr.at = "rs_loop"
    /\ pr.paths # <<>>
    /\ LET acc == RestoreLoop(pr.snapshot, pr.opts, blobs, <<Head(pr.paths)>>, pr.acc)
       IN  pr' = [pr EXCEPT !.acc = acc, !.paths = Tail(@),
                            !.at = IF acc.ok THEN "rs_loop" ELSE "rs_done"]
    /\ UNCHANGED <<now, nb, snapshots, blobs, pc, bk, ret, tampered>>

\* restore_snapshot of the second process: Ok(stats) after the loop (line
\* 150), or the error of a `?`
ConcRestoreReturn ==
    /\ pr.running
    /\ \/ pr.at = "rs_done"
       \/ pr.at = "rs_loop" /\ pr.paths = <<>>
    /\ pr' = [running |-> FALSE, snapshot |-> pr.snapshot, opts |-> pr.opts,
              res |-> pr.acc, alone |-> pr.alone, stored0 |-> pr.stored0]
    /\ UNCHANGED <<now, nb, snapshots, blobs, pc, bk, ret, tampered>>

\* Someone alters the blob file of a hash that a committed snapshot references.
Tamper(hash, data) ==
    /\ pc = "idle"
    /\ Cardinality(tampered) < MaxTampers
    /\ hash \in DOMAIN blobs \ tampered
    /\ \E s \in ListedSet(snapshots) : hash \in HashesOf(s)
    /\ data \in Alterations(blobs[hash])
    /\ blobs' = [blobs EXCEPT ![hash] = data]
    /\ tampered' = tampered \cup {hash}
    /\ UNCHANGED <<now, nb, snapshots, pc, bk, pr, ret>>

NextBackup ==
    \/ \E job \in Jobs, tree \in Trees : BackupStart(job, tree, {})
    \/ \E job \in Jobs : BackupNoSource(job)
    \/ \E path \in Paths : BackupFile(path)
    \/ BackupCommit

NextPrune ==
    \/ \E target \in Targets, keep \in 0..MaxKeep : PruneStart(target, keep)
    \/ DeleteStart
    \/ DeleteBlob
    \/ DeleteManifest
    \/ PruneReturn

NextRestore ==
    \/ \E opts \in RestoreOptions : RestoreReturned(opts)
    \/ \E opts \in RestoreOptions : RestoreListed(opts)

\* The commands of a single writer, each run to its end.
Next == Tick \/ NextBackup \/ NextPrune \/ NextRestore \/ Return

Spec == Init /\ [][Next]_vars

\* prune_snapshots is killed between two steps of delete_snapshot or of its
\* own loop: what it removed stays removed, the rest stays.
PruneKilled ==
    /\ pc \in {"pr_loop", "del_blobs"}
    /\ pc' = "idle"
    /\ pr' = PrNone
    /\ ret' = NoRet
    /\ UNCHANGED <<now, nb, snapshots, blobs, bk, tampered>>

\* The commands of a single writer, whose prune may be killed.
SpecCrash == Init /\ [][Next \/ PruneKilled]_vars

\* the directories of the source trees
Dirs == {DirS}

\* The failures of a backup: directories the walk cannot read, steps that
\* return an error, the process killed.
NextFault ==
    \/ \E job \in Jobs, tree \in Trees, unreadable \in SUBSET Dirs \ {{}} :
          BackupStart(job, tree, unreadable)
    \/ \E path \in Paths, torn \in TornChoices,
          killed \in BOOLEAN : BackupFileFails(path, torn, killed)
    \/ \E torn \in BOOLEAN, killed \in BOOLEAN : BackupCommitFails(torn, killed)

\* The commands of a single writer, every backup of which may fail.
SpecFault == Init /\ [][Tick \/ NextBackup \/ NextPrune \/ Return \/ NextFault]_vars

\* backup_target over the larger set of source trees
NextBackupMore ==
    \/ \E job \in Jobs, tree \in MoreTrees : BackupStart(job, tree, {})
    \/ \E path \in MorePaths : BackupFile(path)
    \/ BackupCommit

\* the prefixes handed to find_snapshot: whole ids, the date of an id, the
\* empty prefix, and "x", which no id begins with
FindPrefixes ==
    {generate_id(n, t) : n \in Targets, t \in 0..MaxBackups}
        \cup {FormatTime(0), <<>>, <<120>>}

NextQuery ==
    \/ \E id_prefix \in FindPrefixes : Find(id_prefix)
    \/ \E older \in ListedSet(snapshots), newer \in ListedSet(snapshots) : Diff(older, newer)

\* Backups and the read-only commands find and diff.
SpecQuery == Init /\ [][Tick \/ NextBackupMore \/ Return \/ NextQuery]_vars

\* Backups whose save_snapshot may leave a manifest cut short, and list.
SpecList ==
    Init /\ [][\/ Tick \/ NextBackupMore \/ Return \/ List
               \/ \E torn \in {TRUE}, killed \in BOOLEAN : BackupCommitFails(torn, killed)
               \/ \E killed \in BOOLEAN : BackupCommitCutInChar(killed)]_vars

\* Backups, and restores into target directories of every kind.
SpecPreflight ==
    Init /\ [][\/ Tick \/ NextBackup \/ Return
               \/ \E opts \in PreflightOptions : RestoreListed(opts)]_vars

\* Backups of the larger set of trees, prunes that may be killed, restores.
SpecAbort ==
    Init /\ [][Tick \/ NextBackupMore \/ NextPrune \/ PruneKilled \/ NextRestore \/ Return]_vars

\* backup_all over the configurations; a target's backup may fail at a file
\* or at its manifest.
NextBackupAll ==
    \/ \E config \in AllConfigs : BackupAllStart(config)
    \/ BackupAllTarget
    \/ \E path \in Paths : BackupFile(path)
    \/ BackupCommit
    \/ \E path \in Paths, torn \in TornChoices : BackupFileFails(path, torn, FALSE)
    \/ \E torn \in BOOLEAN : BackupCommitFails(torn, FALSE)
    \/ BackupAllCollect
    \/ BackupAllReturn

\* cmd_backup is over once backup_all has returned
BackupAllDone == pc = "returned" /\ ret.op = "backup_all" /\ Return

SpecAll == Init /\ [][Tick \/ NextBackupAll \/ BackupAllDone]_vars

\* compress and decompress over the byte sequences, kinds and levels
SpecCompress ==
    Init /\ [][\/ \E x \in ByteSeqs, kind \in Kinds, level \in Levels : Codec(x, kind, level)
               \/ Return]_vars

\* the plaintexts handed to encrypt
Plaintexts == UNION {[1..n -> {0, 255}] : n \in 0..MaxLen}

NextCrypto ==
    \/ \E x \in Plaintexts, password \in Passwords, nonce \in Nonces :
          Cipher(x, password, nonce)
    \/ \E data \in {d \in ByteSeqs : Len(d) < NONCE_LEN} : DecryptBad(data, Pw1, "short")
    \/ \E x \in Plaintexts, password \in Passwords, nonce \in Nonces :
          \E other \in Passwords \ {password} :
             DecryptBad(encrypt(x, password, nonce).v, other, "wrong_password")
    \/ \E x \in Plaintexts, password \in {Pw1}, nonce \in Nonces :
          \E data \in Corruptions(encrypt(x, password, nonce).v) :
             DecryptBad(data, password, "corrupted")

\* encrypt and decrypt over plaintexts, passwords, nonces and corruptions
SpecCrypto == Init /\ [][NextCrypto \/ Return]_vars

\* hash_file over the byte sequences, read in chunks of every size
SpecHash ==
    Init /\ [][\/ \E x \in ByteSeqs : HashOpen(x)
               \/ HashRead
               \/ HashDone
               \/ Return]_vars

NextConcPrune ==
    \/ \E target \in Targets, keep \in 0..MaxKeep : ConcPruneStart(target, keep)
    \/ ConcDeleteStart
    \/ ConcDeleteBlob
    \/ ConcDeleteManifest
    \/ ConcPruneReturn

\* Two processes on one repository without a lock: backups in the first,
\* prunes in the second, their steps interleaved.
SpecConc == Init /\ [][Tick \/ NextBackup \/ ReturnBackup \/ NextConcPrune]_vars

\* backup_target with the write of a blob in two steps
NextBackupSteps ==
    \/ \E job \in Jobs, tree \in Trees : BackupStart(job, tree, {})
    \/ \E path \in Paths : BackupFileDedup(path)
    \/ \E path \in Paths, k \in 0..MaxTorn : BackupFileCreate(path, k)
    \/ BackupFileFill
    \/ BackupCommit

NextConcRestore ==
    \/ \E opts \in RestoreOptions : ConcRestoreStart(opts)
    \/ ConcRestoreEntry
    \/ ConcRestoreReturn

\* Two processes on one repository without a lock: backups in the first,
\* restores in the second, their steps interleaved.
SpecReaders == Init /\ [][Tick \/ NextBackupSteps \/ ReturnBackup \/ NextConcRestore]_vars

\* Backups, and restores with filters.
SpecFilter ==
    Init /\ [][\/ Tick \/ NextBackup \/ Return
               \/ \E opts \in FilterOptions : RestoreListed(opts)]_vars

\* shard_path and blob_path over the strings
SpecShard ==
    Init /\ [][\/ \E hash \in ShardInputs, other \in ShardInputs : Shard(hash, other)
               \/ Return]_vars

\* is_excluded over the paths and the exclude lists
SpecExclude ==
    Init /\ [][\/ \E rel \in ExcludePaths, patterns \in ExcludeLists : Exclude(rel, patterns)
               \/ Return]_vars

NextTamper ==
    \E hash \in DOMAIN blobs : \E data \in Alterations(blobs[hash]) : Tamper(hash, data)

\* Backups and restores of a repository whose blob files are altered.
SpecTamper == Init /\ [][Tick \/ NextBackup \/ NextRestore \/ Return \/ NextTamper]_vars

-----------------------------------------------------------------------------
(* Properties.                                                             *)

PruneReturned == pc = "returned" /\ ret.op = "prune"

BackupReturnedOk == pc = "returned" /\ ret.op = "backup" /\ ret.ok

\* every entry of every snapshot listed in dir has its blob in store
AllResolvable(dir, store) ==
    \A s \in ListedSet(dir) : HashesOf(s) \subseteq DOMAIN store

\* C1 (prune safety): when prune_snapshots has returned, every entry of every
\* snapshot still in the repository, of any target, has its blob in the
\* store, and no blob that prune removed is referenced by a surviving snapshot.
C1_PruneSafety ==
    PruneReturned =>
        /\ AllResolvable(snapshots, blobs)
        /\ \A h \in DOMAIN pr.store0 \ DOMAIN blobs :
              \A s \in ListedSet(snapshots) : h \notin HashesOf(s)

\* C1's case: a prune deleted a snapshot and removed a blob while a surviving
\* snapshot of another target shares a hash with the deleted one.
C1_Witness ==
    /\ PruneReturned
    /\ DOMAIN pr.store0 # DOMAIN blobs
    /\ \E d \in ListedSet(pr.dir0) \ ListedSet(snapshots), s \in ListedSet(snapshots) :
          /\ s.target_name # d.target_name
          /\ HashesOf(d) \cap HashesOf(s) # {}

\* C2 (prune retention): when prune_snapshots(repo, target, keep) has returned,
\* the target has min(original count, keep) snapshots, all of them of the
\* original ones, and every snapshot of the target that is gone is older
\* than every one that is kept.
C2_PruneRetention ==
    PruneReturned =>
        LET before == ListedForTarget(pr.dir0, pr.target)
            after  == ListedForTarget(snapshots, pr.target)
        IN  /\ Cardinality(after) = Min(Cardinality(before), pr.keep)
            /\ after \subseteq before
            /\ \A d \in before \ after, a \in after : d.created_at < a.created_at

\* C2's case: a prune with keep >= 1 deleted a snapshot and kept another.
C2_Witness ==
    /\ PruneReturned
    /\ pr.keep >= 1
    /\ ret.deleted >= 1
    /\ ListedForTarget(snapshots, pr.target) # {}

\* the passwords a restore may be given
PasswordChoices == {None, Some(Pw1), Some(Pw2)}

\* C3 (blob decode invariant): for every committed snapshot S and every entry
\* of S whose blob is in the store, decoding the blob with S.encrypted and
\* S.compression (under some password) yields bytes whose hash is the
\* entry's hash.
C3_BlobDecodes ==
    \A s \in ListedSet(snapshots) : \A p \in DOMAIN s.files :
        blob_exists(blobs, s.files[p].hash) =>
            \E pw \in PasswordChoices :
                LET d == DecodeEntry(s, s.files[p], pw, FALSE, blobs)
                IN  d.ok /\ hash_bytes(d.v) = s.files[p].hash

\* C4 (restore roundtrip): a backup without exclusions followed by the
\* restore of the returned snapshot, with the backup's password and no
\* filter, into an empty directory succeeds and leaves exactly the tree.
C4_RestoreRoundtrip ==
    (/\ pc = "returned"
     /\ ret.op = "restore"
     /\ ret.fresh
     /\ bk.job.exclude = <<>>
     /\ ret.opts.password = bk.job.password
     /\ ~ret.opts.filter.some
     /\ ret.opts.dir = Some(<<>>))
        => ret.res.ok /\ ret.res.dir = Some(bk.tree)

\* the paths of the running backup that were processed after a path with the
\* same content
SecondOfPair ==
    {bk.done[j] : j \in {k \in 1..Len(bk.done) :
        \E i \in 1..(k - 1) : bk.tree[bk.done[i]] = bk.tree[bk.done[k]]}}

\* C5 (dedup correctness): in a run of backup_target, a path processed after
\* another path with the same content is recorded with deduplicated = TRUE
\* and stored_size = 0, its content was not stored again (at most one entry
\* of the run with that hash is not deduplicated), and the store holds the
\* blob for it.
C5_DedupWithinRun ==
    bk.running =>
        \A p \in SecondOfPair :
            LET e == bk.snapshot.files[p]
            IN  /\ e.deduplicated
                /\ e.stored_size = 0
                /\ blob_exists(blobs, e.hash)
                /\ Cardinality({q \in DOMAIN bk.snapshot.files :
                                   /\ bk.snapshot.files[q].hash = e.hash
                                   /\ ~bk.snapshot.files[q].deduplicated}) <= 1

\* C5's case: a backup returned whose first path of a same-content pair was
\* stored by this run and whose second was deduplicated against it.
C5_Witness ==
    /\ BackupReturnedOk
    /\ SecondOfPair # {}
    /\ \E q \in DOMAIN ret.snapshot.files : ~ret.snapshot.files[q].deduplicated

\* C9 (snapshot immutability): no step of backup_target modifies, replaces or
\* removes a manifest that is already in snapshots/.
C9_ManifestsKept ==
    [][pc = "bk_loop" =>
          \A i \in DOMAIN snapshots :
              i \in DOMAIN snapshots' /\ snapshots'[i] = snapshots[i]]_vars

\* C10 (blob immutability): a step never changes the bytes of a blob that
\* stays in the store; backup_target stores a blob only under a hash the
\* store did not hold; a blob leaves the store only in delete_snapshot, and
\* only when no other listed snapshot references its hash.
C10_BlobsImmutable ==
    [][/\ \A h \in DOMAIN blobs \cap DOMAIN blobs' : blobs'[h] = blobs[h]
       /\ (pc = "bk_loop" /\ pc' = "bk_loop" /\ bk'.nstored > bk.nstored) =>
              LET h == bk'.snapshot.files[bk'.done[Len(bk'.done)]].hash
              IN  ~blob_exists(blobs, h) /\ blob_exists(blobs', h)
       /\ \A h \in DOMAIN blobs \ DOMAIN blobs' :
              /\ pc = "del_blobs"
              /\ \A s \in ListedSet(snapshots) : s.id # pr.cur.v.id => h \notin HashesOf(s)
      ]_vars

\* C10's case: a backup returned an entry deduplicated against a blob that a
\* snapshot with another compression or encryption setting had stored.
C10_Witness ==
    /\ BackupReturnedOk
    /\ \E p \in DOMAIN ret.snapshot.files, t \in ListedSet(snapshots) :
          /\ ret.snapshot.files[p].deduplicated
          /\ ret.snapshot.files[p].hash \in HashesOf(t)
          /\ <<t.compression, t.encrypted>>
                 # <<ret.snapshot.compression, ret.snapshot.encrypted>>

\* C6 (manifest-last ordering): at every point of a backup, and after a
\* backup failed or was killed at any point, every manifest in snapshots/
\* that reads as a snapshot references only blobs that are in the store.
\* (delete_snapshot is the one place that takes blobs away under a manifest.)
C6_ManifestLast == pc # "del_blobs" => AllResolvable(snapshots, blobs)

\* C6's case: a backup was killed inside save_snapshot and left a manifest cut
\* short and a blob no snapshot references; another backup has committed.
C6_Witness ==
    /\ pc = "idle"
    /\ \E i \in DOMAIN snapshots : ~snapshots[i].whole
    /\ \E s \in ListedSet(snapshots) : s.files # <<>>
    /\ \E h \in DOMAIN blobs : \A s \in ListedSet(snapshots) : h \notin HashesOf(s)

\* C7 (no partial snapshot): a backup_target whose per-file step failed has
\* returned an error and written no manifest, and a backup_target that
\* returned a snapshot has recorded every regular file of the source that no
\* pattern excludes.
C7_NoPartialSnapshot ==
    /\ (pc = "returned" /\ ret.op = "backup" /\ ~ret.ok /\ ret.step = "file")
           => snapshots = bk.dir0
    /\ BackupReturnedOk =>
           DOMAIN ret.snapshot.files
               = {p \in DOMAIN bk.tree : ~is_excluded(p, bk.job.exclude)}

\* a restore with verify of a snapshot that references an altered blob, given
\* the password when the snapshot is encrypted, has returned
VerifiedRestoreOfTampered ==
    /\ pc = "returned"
    /\ ret.op = "restore"
    /\ ret.opts.verify
    /\ ret.snapshot.encrypted => ret.opts.password.some
    /\ HashesOf(ret.snapshot) \cap tampered # {}

\* C8 as the specification states it (integrity detection): a restore with
\* verify of a snapshot that references an altered blob fails with
\* IntegrityFailure.
C8_IntegrityFailure ==
    VerifiedRestoreOfTampered => ~ret.res.ok /\ ret.res.err = "IntegrityFailure"

\* C8, amended: a restore with verify of a snapshot that references an
\* altered blob fails with IntegrityFailure, DecryptionFailed or
\* DecompressionFailed, or the altered blobs still decode to their content
\* and the restore writes, for every entry, bytes with the entry's hash.
C8_TamperDetected ==
    VerifiedRestoreOfTampered =>
        IF ret.res.ok
        THEN /\ DOMAIN ret.res.dir.v = DOMAIN ret.snapshot.files
             /\ \A p \in DOMAIN ret.snapshot.files :
                   hash_bytes(ret.res.dir.v[p]) = ret.snapshot.files[p].hash
        ELSE ret.res.err \in {"IntegrityFailure", "DecryptionFailed", "DecompressionFailed"}

\* C8's case: the altered blob of an encrypted snapshot was caught by decrypt.
C8_Witness ==
    /\ VerifiedRestoreOfTampered
    /\ ret.snapshot.encrypted
    /\ ~ret.res.ok
    /\ ret.res.err = "DecryptionFailed"
    /\ ret.snapshot.files[ret.res.failed_at].hash \in tampered

\* the blobs of store that no snapshot listed in dir references
Orphans(dir, store) ==
    {h \in DOMAIN store : \A s \in ListedSet(dir) : h \notin HashesOf(s)}

\* C11 (orphan reclamation): when prune_snapshots has returned, the blobs
\* that no manifest referenced when it was called (what a backup that failed
\* or was killed before save_snapshot left behind) are gone from the store.
C11_OrphansReclaimed ==
    PruneReturned => \A h \in Orphans(pr.dir0, pr.store0) : ~blob_exists(blobs, h)

\* C12 (crash during prune): with prune_snapshots killed at any step, no
\* command finds a manifest in the repository whose blobs are not all in
\* the store.
C12_NoDanglingManifest == pc = "idle" => AllResolvable(snapshots, blobs)

\* C13 (prune ordering): in the step that removes a snapshot's manifest, every
\* blob that only this snapshot referenced is already gone from the store.
C13_BlobsBeforeManifest ==
    [][\A i \in DOMAIN snapshots \ DOMAIN snapshots' :
          /\ blobs' = blobs
          /\ \A h \in HashesOf(snapshots[i].snap) \ ReferencedByOthers(snapshots, snapshots[i].snap) :
                ~blob_exists(blobs, h)]_vars

\* C13's case: delete_snapshot has removed blobs and then the manifest.
C13_Witness ==
    /\ pc = "pr_loop"
    /\ pr.deleted >= 1
    /\ pr.freed > 0
    /\ DOMAIN pr.dir0 # DOMAIN snapshots
    /\ DOMAIN pr.store0 # DOMAIN blobs

\* the elements of a sequence
Range(q) == {q[i] : i \in 1..Len(q)}

\* the sum of f[p].size, or of another field, over the paths in P
SizeSum(f, P) == SeqSum([i \in 1..Cardinality(P) |-> f[SortedKeys(P)[i]].size])

StoredSizeSum(f, P) == SeqSum([i \in 1..Cardinality(P) |-> f[SortedKeys(P)[i]].stored_size])

\* the stored snapshots whose id begins with prefix
StoredMatches(dir, prefix) == {sn \in ListedSet(dir) : StartsWith(sn.id, prefix)}

\* C14 (find_snapshot): find_snapshot returns a snapshot iff exactly one
\* stored snapshot has an id beginning with the prefix, and then that one;
\* with no match it returns None, with two or more an ambiguity error.
C14_FindSnapshot ==
    (pc = "returned" /\ ret.op = "find") =>
        LET m == StoredMatches(snapshots, ret.id_prefix)
        IN  /\ (ret.res.ok /\ ret.res.v.some) <=> Cardinality(m) = 1
            /\ Cardinality(m) = 1 => ret.res.v.v \in m
            /\ Cardinality(m) = 0 => ret.res.ok /\ ~ret.res.v.some
            /\ Cardinality(m) >= 2 => ~ret.res.ok /\ ret.res.err = "Ambiguous"

\* C14's case: a prefix that two stored snapshots begin with was refused as
\* ambiguous.
C14_Witness ==
    /\ pc = "returned"
    /\ ret.op = "find"
    /\ Cardinality(StoredMatches(snapshots, ret.id_prefix)) = 2
    /\ ~ret.res.ok

\* C15 (list_snapshots): list_snapshots returns, oldest first, exactly the
\* snapshots whose manifest files parse, whatever else lies in snapshots/.
C15_ListSkipsUnparseable ==
    (pc = "returned" /\ ret.op = "list") =>
        /\ ret.res.ok
        /\ Range(ret.res.v) = ListedSet(snapshots)
        /\ Len(ret.res.v) = Cardinality(ListedSet(snapshots))
        /\ \A i \in 1..Len(ret.res.v), j \in 1..Len(ret.res.v) :
              i < j => ret.res.v[i].created_at <= ret.res.v[j].created_at

\* C19 (snapshot stats): the stats of a snapshot backup_target returned are
\* the counts and sums over the snapshot's entries.
C19_StatsMatchEntries ==
    BackupReturnedOk =>
        LET f       == ret.snapshot.files
            st      == ret.snapshot.stats
            dedup   == {p \in DOMAIN f : f[p].deduplicated}
            stored  == DOMAIN f \ dedup
        IN  /\ st.total_files = Cardinality(DOMAIN f)
            /\ st.new_files = Cardinality(stored)
            /\ st.unchanged_files = Cardinality(dedup)
            /\ st.deduplicated_blobs = Cardinality(dedup)
            /\ st.modified_files = 0
            /\ st.total_size = SizeSum(f, DOMAIN f)
            /\ st.stored_size = StoredSizeSum(f, stored)
            /\ st.new_files + st.unchanged_files = st.total_files

\* C20 (diff_snapshots): added, removed and modified are the paths only in
\* newer, only in older, and in both with different hashes, each once; the
\* three sizes are the sums of newer.size, older.size and newer.size -
\* older.size over them.
C20_DiffPartitions ==
    (pc = "returned" /\ ret.op = "diff") =>
        LET o == ret.older.files
            n == ret.newer.files
            d == ret.res
            A == DOMAIN n \ DOMAIN o
            R == DOMAIN o \ DOMAIN n
            M == {p \in DOMAIN o \cap DOMAIN n : o[p].hash # n[p].hash}
        IN  /\ Range(d.added) = A /\ Len(d.added) = Cardinality(A)
            /\ Range(d.removed) = R /\ Len(d.removed) = Cardinality(R)
            /\ Range(d.modified) = M /\ Len(d.modified) = Cardinality(M)
            /\ d.added_size = SizeSum(n, A)
            /\ d.removed_size = SizeSum(o, R)
            /\ d.modified_size_delta = SizeSum(n, M) - SizeSum(o, M)

\* C20's case: a diff with an added, a removed and a modified path.
C20_Witness ==
    /\ pc = "returned"
    /\ ret.op = "diff"
    /\ ret.res.added # <<>>
    /\ ret.res.removed # <<>>
    /\ ret.res.modified # <<>>
    /\ ret.res.modified_size_delta # 0

\* p with every trailing '/' removed
StripSlashes(p) ==
    LET keep == {n \in 0..Len(p) : \A i \in (n + 1)..Len(p) : p[i] = 47}
    IN  Take(p, CHOOSE n \in keep : \A m \in keep : n <= m)

\* name is one of the components of the '/'-separated path rel
IsComponent(rel, name) ==
    /\ name # <<>>
    /\ \A i \in 1..Len(name) : name[i] # 47
    /\ \E i \in 1..Len(rel) :
          /\ i + Len(name) - 1 <= Len(rel)
          /\ SubSeq(rel, i, i + Len(name) - 1) = name
          /\ i = 1 \/ rel[i - 1] = 47
          /\ i + Len(name) - 1 = Len(rel) \/ rel[i + Len(name)] = 47

\* the three rules, tried in order on the pattern p
RulesMatch(rel, p) ==
    IF p # <<>> /\ p[1] = 42 THEN EndsWith(rel, Drop(p, 1))
    ELSE IF p # <<>> /\ p[Len(p)] = 42 THEN StartsWith(rel, Take(p, Len(p) - 1))
    ELSE IsComponent(rel, StripSlashes(p))

IsExcludedCall == pc = "returned" /\ ret.op = "is_excluded"

\* C16 (exclusion matching), as stated: is_excluded decides by the three
\* rules tried in order on the pattern as given: leading '*' = the path ends
\* with the rest, else trailing '*' = the path starts with the text before
\* it, else the pattern without trailing '/' equals a path component; a file
\* is excluded iff some pattern matches.
C16_RulesOnPatternAsGiven ==
    IsExcludedCall =>
        (ret.res <=> \E i \in 1..Len(ret.patterns) : RulesMatch(ret.rel, ret.patterns[i]))

\* C16 (exclusion matching), amended: the three rules are tried in order on
\* the pattern with its trailing '/' characters stripped; a file is excluded
\* iff some pattern matches.
C16_RulesOnStrippedPattern ==
    IsExcludedCall =>
        (ret.res <=> \E i \in 1..Len(ret.patterns) :
                        RulesMatch(ret.rel, StripSlashes(ret.patterns[i])))

\* C16's case: a file excluded by a '*' pattern that ends with '/', which
\* matches only once the '/' is stripped.
C16_Witness ==
    /\ IsExcludedCall
    /\ ret.res
    /\ Len(ret.patterns) = 1
    /\ ret.patterns[1][Len(ret.patterns[1])] = 47
    /\ 42 \in Range(ret.patterns[1])
    /\ ~RulesMatch(ret.rel, ret.patterns[1])

RestoreCall == pc = "returned" /\ ret.op = "restore"

TargetExistsError == ~ret.res.ok /\ ret.res.err = "TargetExists"

\* the target directory exists and holds a file
TargetNonEmpty(opts) == opts.dir.some /\ DOMAIN opts.dir.v # {}

\* C17 (restore preflight), as stated: restore_snapshot fails with
\* TargetExists iff target_dir exists, is non-empty and force is false; then
\* target_dir is as it was; in every other case target_dir exists afterwards.
C17_PreflightNonEmpty ==
    RestoreCall =>
        /\ TargetExistsError <=> (TargetNonEmpty(ret.opts) /\ ~ret.opts.force)
        /\ TargetExistsError => ret.res.dir = ret.opts.dir
        /\ ~TargetExistsError => ret.res.dir.some

\* C17 (restore preflight), amended: restore_snapshot fails with
\* TargetExists iff target_dir exists, force is false, and target_dir is
\* non-empty or cannot be read; then target_dir is as it was; in every other
\* case target_dir exists afterwards.
C17_PreflightNonEmptyOrUnreadable ==
    RestoreCall =>
        /\ TargetExistsError <=>
              /\ ret.opts.dir.some
              /\ ~ret.opts.force
              /\ TargetNonEmpty(ret.opts) \/ ~ret.opts.readable
        /\ TargetExistsError => ret.res.dir = ret.opts.dir
        /\ ~TargetExistsError => ret.res.dir.some

\* C17's case: a restore into a directory that holds a file, without
\* --force, was refused and left the directory as it was.
C17_Witness ==
    /\ RestoreCall
    /\ TargetExistsError
    /\ TargetNonEmpty(ret.opts)
    /\ ret.opts.readable
    /\ DOMAIN ret.snapshot.files # {}
    /\ ret.res.dir = ret.opts.dir

\* C17's other case: a restore into a directory that did not exist created
\* it.
C17_WitnessCreated ==
    /\ RestoreCall
    /\ ret.res.ok
    /\ ~ret.opts.dir.some
    /\ ret.res.dir.some

\* the restore stopped at an entry whose blob is missing or fails the check
RestoreAborted ==
    /\ RestoreCall
    /\ ~ret.res.ok
    /\ ret.res.err \in {"BlobMissing", "IntegrityFailure"}

\* the selected entries that come before path in lexicographic order
SelectedBefore(snapshot, filter, path) ==
    {p \in Selected(snapshot, filter) : LexLess(p, path)}

C18_WitnessIntegrity ==
    /\ RestoreAborted
    /\ ret.res.err = "IntegrityFailure"
    /\ SelectedBefore(ret.snapshot, ret.opts.filter, ret.res.failed_at) # {}

DiffCall == pc = "returned" /\ ret.op = "diff"

\* a diff that reports nothing
NoChanges(d) ==
    /\ d.added = <<>> /\ d.removed = <<>> /\ d.modified = <<>>
    /\ d.added_size = 0 /\ d.removed_size = 0 /\ d.modified_size_delta = 0

\* C21 (diff symmetry): diff(A, B).added and diff(B, A).removed are the same
\* set, the modified sets of diff(A, B) and diff(B, A) coincide, and
\* diff(A, A) reports no changes.
C21_DiffSymmetry ==
    DiffCall =>
        LET back == diff_snapshots(ret.newer, ret.older)
        IN  /\ Range(ret.res.added) = Range(back.removed)
            /\ Range(ret.res.removed) = Range(back.added)
            /\ Range(ret.res.modified) = Range(back.modified)
            /\ NoChanges(diff_snapshots(ret.older, ret.older))
            /\ ret.older = ret.newer => NoChanges(ret.res)

\* C21's case: the diff of two different snapshots with an added and a
\* modified path, whose reverse has a removed path.
C21_Witness ==
    /\ DiffCall
    /\ ret.older.id # ret.newer.id
    /\ ret.res.added # <<>>
    /\ ret.res.modified # <<>>
    /\ diff_snapshots(ret.newer, ret.older).removed # <<>>

\* C21's other case: the diff of a snapshot that has files with itself.
C21_WitnessSelf ==
    /\ DiffCall
    /\ ret.older = ret.newer
    /\ DOMAIN ret.older.files # {}

BackupAllReturned == pc = "returned" /\ ret.op = "backup_all"

\* the names of the targets of a configuration
ConfigNames(config) == {config[i].job.name : i \in 1..Len(config)}

\* C22 (backup_all isolates failures): backup_all returns Ok after running
\* every target; every target is either failed or has its snapshot in the
\* returned list, never both; each returned snapshot has a committed
\* manifest, and the targets that failed left none.
C22_BackupAllIsolatesFailures ==
    BackupAllReturned =>
        LET names == {ret.snapshots[i].target_name : i \in 1..Len(ret.snapshots)}
        IN  /\ ret.ok
            /\ names \cup Range(ret.failed) = ConfigNames(ret.config)
            /\ names \cap Range(ret.failed) = {}
            /\ Len(ret.snapshots) + Len(ret.failed) = Len(ret.config)
            /\ \A i \in 1..Len(ret.snapshots) :
                  /\ ret.snapshots[i].id \in DOMAIN snapshots
                  /\ snapshots[ret.snapshots[i].id] = ManifestFile(ret.snapshots[i])
            /\ \A i \in 1..Len(ret.config) :
                  ~ret.config[i].from.some => ret.config[i].job.name \in Range(ret.failed)
            /\ ListedSet(snapshots) \ ListedSet(ret.dir0) \subseteq Range(ret.snapshots)

\* C22's case: the first of two targets failed and the second was backed up
\* all the same.
C22_Witness ==
    /\ BackupAllReturned
    /\ ret.failed = <<NameDoc>>
    /\ Len(ret.snapshots) = 1
    /\ ret.snapshots[1].target_name = NameDocs
    /\ DOMAIN ret.snapshots[1].files # {}

CodecCall == pc = "returned" /\ ret.op = "codec"

CipherCall == pc = "returned" /\ ret.op = "cipher"

\* C24 (cipher roundtrip): decrypt(encrypt(x, p), p) = x for every plaintext
\* x and non-empty password p, and the output of encrypt is the 12-byte
\* nonce, then the ciphertext and the 16-byte tag: len(x) + 28 bytes.
C24_CipherRoundtrip ==
    (CipherCall /\ ret.password # <<>>) =>
        /\ ret.encrypted.ok
        /\ ret.decrypted.ok
        /\ ret.decrypted.v = ret.x
        /\ Len(ret.encrypted.v) = Len(ret.x) + 28
        /\ SubSeq(ret.encrypted.v, 1, 12) = ret.nonce
        /\ SubSeq(ret.encrypted.v, 13, Len(ret.encrypted.v))
              = AeadEncrypt(derive_key(ret.password), ret.nonce, ret.x)

\* C24's case: a round trip of a plaintext of MaxLen bytes.
C24_Witness ==
    /\ CipherCall
    /\ ret.password # <<>>
    /\ Len(ret.x) = MaxLen
    /\ ret.decrypted.ok
    /\ ret.encrypted.v # ret.x

DecryptCall == pc = "returned" /\ ret.op = "decrypt"

\* C25 (decrypt failure): decrypt returns DecryptionFailed, never a
\* plaintext, for an input shorter than the nonce, for an output of encrypt
\* decrypted with another password, and for a corrupted output of encrypt.
C25_DecryptFails ==
    DecryptCall =>
        /\ ret.how = "short" => Len(ret.data) < 12
        /\ ~ret.res.ok
        /\ ret.res.err = "DecryptionFailed"

\* C25's case: an output of encrypt of at least 28 bytes with two of its
\* bytes exchanged was refused.
C25_Witness ==
    /\ DecryptCall
    /\ ret.how = "corrupted"
    /\ Len(ret.data) > 28
    /\ \E x \in Plaintexts, nonce \in Nonces :
          /\ Len(encrypt(x, ret.password, nonce).v) = Len(ret.data)
          /\ SeqSum(encrypt(x, ret.password, nonce).v) = SeqSum(ret.data)
          /\ encrypt(x, ret.password, nonce).v # ret.data
    /\ ~ret.res.ok

\* C25's other cases: a wrong password, and an input too short for a nonce.
C25_WitnessWrongPassword ==
    DecryptCall /\ ret.how = "wrong_password" /\ ~ret.res.ok

C25_WitnessShort ==
    DecryptCall /\ ret.how = "short" /\ Len(ret.data) > 0 /\ ~ret.res.ok

HashCall == pc = "returned" /\ ret.op = "hash_file"

\* C26 (hash determinism): hash_file of a file that holds x is hash_bytes(x)
\* whatever the chunks the file was read in, and hash_bytes differs for
\* different inputs.
C26_HashDeterminism ==
    HashCall =>
        /\ ret.res = hash_bytes(ret.x)
        /\ ret.res = hash_file(ret.x)
        /\ SeqSum(ret.reads) = Len(ret.x)
        /\ \A y \in ByteSeqs : y # ret.x => hash_bytes(y) # ret.res

\* C26's case: a file of MaxLen bytes hashed in more than one read.
C26_Witness ==
    /\ HashCall
    /\ Len(ret.x) = MaxLen
    /\ Len(ret.reads) > 1

\* data is an output of encrypt: a nonce, then a ciphertext and the tag that
\* authenticates it under some password
IsCiphertext(data) == \E password \in Passwords : decrypt(data, password).ok

\* C27 (encrypted snapshots hold only ciphertext): every blob that an entry
\* of a committed snapshot with encrypted = true references is on disk as an
\* output of encrypt, deduplicated entries included.
C27_EncryptedBlobsAreCiphertext ==
    \A s \in ListedSet(snapshots) :
        s.encrypted =>
            \A p \in DOMAIN s.files :
                blob_exists(blobs, s.files[p].hash) =>
                    IsCiphertext(blobs[s.files[p].hash])

\* the source files whose blob the backup that has just returned stored
StoredPaths ==
    {p \in DOMAIN bk.tree :
        /\ NormalizeSeparators(p) \in DOMAIN ret.snapshot.files
        /\ ~ret.snapshot.files[NormalizeSeparators(p)].deduplicated
        /\ hash_bytes(bk.tree[p]) = ret.snapshot.files[NormalizeSeparators(p)].hash}

\* C28 (encryption is enabled iff encrypt and a password): a backup records
\* encrypted = true iff settings.encrypt is true and a password is supplied;
\* the blobs it stores are outputs of encrypt under that password iff so, and
\* the compressed bytes otherwise; with settings.encrypt and no password the
\* backup succeeds all the same.
C28_EncryptedIffPassword ==
    BackupReturnedOk =>
        /\ ret.snapshot.encrypted <=> (bk.job.encrypt /\ bk.job.password.some)
        /\ \A p \in StoredPaths :
              LET blob       == blobs[hash_bytes(bk.tree[p])]
                  compressed == compress(bk.tree[p], ret.snapshot.compression,
                                         bk.job.zstd_level).v
              IN  IF bk.job.encrypt /\ bk.job.password.some
                  THEN decrypt(blob, bk.job.password.v) = Ok(compressed)
                  ELSE blob = compressed

\* C28's case: a backup with settings.encrypt and no password returned a
\* snapshot that is not encrypted and stored a blob.
C28_Witness ==
    /\ BackupReturnedOk
    /\ bk.job.encrypt
    /\ ~bk.job.password.some
    /\ ~ret.snapshot.encrypted
    /\ StoredPaths # {}

\* C28's other case: a backup with settings.encrypt and a password stored an
\* encrypted blob.
C28_WitnessEncrypted ==
    /\ BackupReturnedOk
    /\ ret.snapshot.encrypted
    /\ StoredPaths # {}

\* the snapshots the prune that has just returned deleted
DeletedByPrune == ListedSet(pr.dir0) \ ListedSet(snapshots)

\* C29 (garbage-collection completeness): when prune_snapshots has returned,
\* every blob that a deleted snapshot referenced and no surviving snapshot of
\* any target references is removed, also when several snapshots of the
\* batch shared it.
C29_PruneCollectsAll ==
    PruneReturned =>
        \A d \in DeletedByPrune : \A h \in HashesOf(d) :
            (\A s \in ListedSet(snapshots) : h \notin HashesOf(s))
                => ~blob_exists(blobs, h)

\* C29's case: a prune deleted two snapshots that shared a blob, and the
\* blob is removed.
C29_Witness ==
    /\ PruneReturned
    /\ ret.deleted = 2
    /\ \E d \in DeletedByPrune, e \in DeletedByPrune :
          /\ d.id # e.id
          /\ \E h \in HashesOf(d) \cap HashesOf(e) :
                blob_exists(pr.store0, h) /\ ~blob_exists(blobs, h)

\* the committed snapshots that reference a blob that is not in the store,
\* each with such a hash
Dangling ==
    {d \in ListedSet(snapshots) \X UNION {HashesOf(t) : t \in ListedSet(snapshots)} :
        d[2] \in HashesOf(d[1]) /\ ~blob_exists(blobs, d[2])}

\* C30 (prune is unsafe under concurrency): a committed snapshot references
\* a blob that is not in the store only when a prune removed the blob after a
\* reference scan that did not read that snapshot: the snapshot being
\* deleted, or one a backup committed after the scan.  C30_Witness is the
\* interleaving that ends so.
C30_DanglingOnlyByRace ==
    \A d \in Dangling :
        /\ d[2] \in DOMAIN PruneLog(pr)
        /\ d[1] \notin PruneLog(pr)[d[2]]

\* C30's case: a backup_target and a prune_snapshots have interleaved and
\* both are over; the snapshot the backup committed references a blob that
\* the prune removed.
C30_Witness ==
    /\ pc = "idle"
    /\ ~pr.running
    /\ \E d \in Dangling :
          /\ d[2] \in DOMAIN PruneLog(pr)
          /\ d[1].files # <<>>
          /\ \E p \in DOMAIN d[1].files :
                d[1].files[p].hash = d[2] /\ d[1].files[p].deduplicated


\* the restore of the second process has returned
ConcRestoreReturned == ~pr.running /\ "res" \in DOMAIN pr

\* C31 (lock-free readers): a restore_snapshot of a committed snapshot whose
\* steps are interleaved with those of a running backup_target returns what it
\* returns when it runs alone, and leaves the same files with the same
\* contents in target_dir.
C31_RestoreUnaffectedByBackup ==
    ConcRestoreReturned => pr.res = pr.alone

\* a restore has written files while a backup stored a blob beside it
C31_Witness ==
    /\ ConcRestoreReturned
    /\ pr.res.ok
    /\ pr.res.files_restored > 0
    /\ DOMAIN blobs # pr.stored0


\* the bytes stored under hash decode to content with that hash, under the
\* pipeline of some backup: any compression, encrypted or not, any password
DecodesToHash(store, hash) ==
    \E kind \in Kinds, encrypted \in BOOLEAN, pw \in PasswordChoices :
        DecodeEntry([encrypted |-> encrypted, compression |-> kind], [hash |-> hash],
                    pw, TRUE, store).ok

\* C32 (leftovers of a crashed backup are harmless): a backup never
\* deduplicates against a stored blob whose bytes do not decode to its hash;
\* every deduplicated entry of a committed snapshot whose blob is in the store
\* has a blob there that decodes to the entry's hash.
C32_DedupAgainstWholeBlobs ==
    \A s \in ListedSet(snapshots) : \A p \in DOMAIN s.files :
        (s.files[p].deduplicated /\ blob_exists(blobs, s.files[p].hash))
            => DecodesToHash(blobs, s.files[p].hash)


\* the entries whose path has one of the strings of l as a substring
HavingSubstring(snapshot, l) ==
    {p \in DOMAIN snapshot.files :
        \E i \in 1..Len(l) : \E a \in 0..Len(p), b \in 0..Len(p) :
            a <= b /\ SubSeq(p, a + 1, b) = l[i]}

\* the entries a restore with this filter is to restore
Wanted(snapshot, filter) ==
    IF filter.some THEN HavingSubstring(snapshot, filter.v) ELSE DOMAIN snapshot.files

C33_WitnessEmptyList ==
    /\ RestoreCall
    /\ ret.opts.filter = Some(<<>>)
    /\ ret.snapshot.files # <<>>
    /\ ret.res.ok
    /\ ret.res.files_restored = 0


\* C34 (exact-id lookup): find_snapshot called with the complete id of a
\* stored snapshot returns that snapshot, whatever other ids are stored.
C34_ExactIdFound ==
    (pc = "returned" /\ ret.op = "find") =>
        \A s \in ListedSet(snapshots) :
            s.id = ret.id_prefix =>
                ret.res.ok /\ ret.res.v.some /\ ret.res.v.v = s


\* C35 (encrypted snapshot, no password): restore_snapshot of a snapshot
\* with encrypted = TRUE and at least one selected entry, called without a
\* password, returns an error and has written no file into target_dir.
C35_NoPasswordFails ==
    (/\ RestoreCall
     /\ ret.snapshot.encrypted
     /\ ~ret.opts.password.some
     /\ Selected(ret.snapshot, ret.opts.filter) # {})
        => /\ ~ret.res.ok
           /\ ret.res.files_restored = 0
           /\ ret.res.dir.some => ret.res.dir.v = (IF ret.opts.dir.some THEN ret.opts.dir.v
                                                    ELSE <<>>)

\* an encrypted snapshot whose blobs are all stored was refused for want of a
\* password
C35_Witness ==
    /\ RestoreCall
    /\ ret.snapshot.encrypted
    /\ ~ret.opts.password.some
    /\ HashesOf(ret.snapshot) \subseteq DOMAIN blobs
    /\ HashesOf(ret.snapshot) # {}
    /\ ~ret.res.ok
    /\ ret.res.err = "NoPassword"


\* C36 (verification order): with verify enabled the integrity check of a
\* file comes after the file has been restored and reads what was written;
\* when restore_snapshot returns IntegrityFailure for a path, the file of
\* that path is in target_dir.
C36_VerifiedAfterWrite ==
    (/\ RestoreCall
     /\ ret.opts.verify
     /\ ~ret.res.ok
     /\ ret.res.err = "IntegrityFailure")
        => ret.res.failed_at \in DOMAIN ret.res.dir.v


\* the bytes on disk of the blobs removed since prune_snapshots began
RemovedSize ==
    LET gone == SortedKeys(DOMAIN pr.store0 \ DOMAIN blobs)
    IN  SeqSum([i \in 1..Len(gone) |-> Len(pr.store0[gone[i]])])

\* C37 (freed-bytes accounting): the bytes delete_snapshot has counted are
\* the sizes on disk of the blobs it removed, each blob once; prune_snapshots
\* returns their sum over the snapshots it deleted, and how many it deleted.
C37_FreedBytes ==
    /\ pc = "del_blobs" => pr.freed + pr.freed_bytes = RemovedSize
    /\ pc = "pr_loop" => pr.freed = RemovedSize
    /\ (PruneReturned /\ ret.ok) =>
          /\ ret.freed = RemovedSize
          /\ ret.deleted = Cardinality(DOMAIN pr.dir0 \ DOMAIN snapshots)
          /\ ret.deleted = Cardinality(DeletedByPrune)

\* a deleted snapshot had two entries with one hash; the blob is removed and
\* its size was counted once
C37_Witness ==
    /\ PruneReturned
    /\ ret.ok
    /\ ret.deleted = 1
    /\ \E d \in DeletedByPrune :
          /\ Cardinality(DOMAIN d.files) = 2
          /\ \E h \in DOMAIN pr.store0 :
                /\ HashesOf(d) = {h}
                /\ ~blob_exists(blobs, h)
                /\ ret.freed = Len(pr.store0[h])
                /\ ret.freed > 0


\* prune_snapshots is running or has just returned
InPrune == pc \in {"pr_loop", "del_blobs"} \/ PruneReturned

\* C38 (prune frame): prune_snapshots(repo, target, keep) leaves the manifest
\* of every snapshot of another target in place and as it was; when the
\* target has at most keep snapshots it returns (0, 0) and every manifest
\* and every blob is as before.
C38_PruneFrame ==
    InPrune =>
        /\ \A i \in DOMAIN pr.dir0 :
              pr.dir0[i].snap.target_name # pr.target
                  => i \in DOMAIN snapshots /\ snapshots[i] = pr.dir0[i]
        /\ Cardinality(ListedForTarget(pr.dir0, pr.target)) <= pr.keep
              => /\ PruneReturned
                 /\ ret.ok /\ ret.deleted = 0 /\ ret.freed = 0
                 /\ snapshots = pr.dir0
                 /\ blobs = pr.store0

\* a prune deleted a snapshot of its target beside a snapshot of another
\* target, which is still there
C38_Witness ==
    /\ PruneReturned
    /\ ret.deleted = 1
    /\ \E i \in DOMAIN pr.dir0 :
          pr.dir0[i].snap.target_name # pr.target /\ i \in DOMAIN snapshots

\* a prune of a target with as many snapshots as it is to keep returned (0, 0)
C38_WitnessKept ==
    /\ PruneReturned
    /\ pr.keep = 1
    /\ Cardinality(ListedForTarget(pr.dir0, pr.target)) = 1
    /\ ret.deleted = 0
    /\ ret.freed = 0
    /\ blobs = pr.store0


ShardCall == pc = "returned" /\ ret.op = "shard_path"

\* C39 (sharding): shard_path(hash) returns a prefix and a suffix that
\* together are the hash, the prefix of two characters, or the whole hash
\* when it is shorter; blob_path is <repo>/blobs/<prefix>/<suffix>, the same
\* for equal hashes and another for another hash of HASH_LEN characters.
C39_ShardPath ==
    ShardCall =>
        LET prefix  == ret.res[1]
            suffix  == ret.res[2]
            sharded == RepoPath \o <<47, 98, 108, 111, 98, 115, 47>> \o prefix
                           \o <<47>> \o suffix
        IN  /\ prefix \o suffix = ret.hash
            /\ Len(prefix) = (IF Len(ret.hash) < 2 THEN Len(ret.hash) ELSE 2)
            /\ Len(ret.hash) < 2 => prefix = ret.hash /\ suffix = <<>>
            /\ TrimEndSlash(ret.path) = TrimEndSlash(sharded)
            /\ Len(ret.hash) > 2 => ret.path = sharded
            /\ ret.hash = ret.other => ret.path = ret.other_path
            /\ (/\ Len(ret.hash) = HASH_LEN
                /\ Len(ret.other) = HASH_LEN
                /\ ret.hash # ret.other)
                  => ret.path # ret.other_path

\* two hashes of HASH_LEN characters with the same prefix have different
\* blob paths
C39_Witness ==
    /\ ShardCall
    /\ Len(ret.hash) = HASH_LEN
    /\ Len(ret.other) = HASH_LEN
    /\ ret.hash # ret.other
    /\ ret.res[1] = shard_path(ret.other)[1]
    /\ Len(ret.res[2]) = HASH_LEN - 2
    /\ ret.path # ret.other_path

\* a string of one character is returned whole, with an empty suffix
C39_WitnessShort ==
    /\ ShardCall
    /\ Len(ret.hash) = 1
    /\ ret.res = <<ret.hash, <<>>>>

=============================================================================
